---- MODULE Spec2Model ----
(***************************************************************************)
(* A model of the stac_dem_bc catalogue pipeline (scripts/item_create.py,  *)
(* item_reprocess.py, collection_create.py and stac_utils.py): the GeoTIFF *)
(* metadata cache, the extraction pool, item synthesis, the merge of item  *)
(* links into the collection, and the creation of the collection.          *)
(* Strings are sequences of one-character strings, so that slicing,        *)
(* prefix tests and replacement are computed as the Python code does.      *)
(***************************************************************************)
EXTENDS Integers, Sequences, FiniteSets, TLC

(***************************************************************************)
(* Path configuration (stac_utils.py)                                      *)
(***************************************************************************)
PATH_S3 ==
    <<"h","t","t","p","s",":","/","/","n","r","s",".","o","b","j","e","c","t","s","t","o","r",
      "e",".","g","o","v",".","b","c",".","c","a","/","g","d","w","u","t","s">>

PATH_S3_STAC ==
    <<"h","t","t","p","s",":","/","/","s","t","a","c","-","d","e","m","-","b","c",".","s","3",
      ".","a","m","a","z","o","n","a","w","s",".","c","o","m">>

NULL == "null"

(***************************************************************************)
(* String primitives of Python used by the scripts                         *)
(***************************************************************************)
Range(s) == {s[i] : i \in DOMAIN s}

\* str.startswith
StartsWith(s, p) ==
    /\ Len(p) <= Len(s)
    /\ SubSeq(s, 1, Len(p)) = p

\* str.endswith
EndsWith(s, p) ==
    /\ Len(p) <= Len(s)
    /\ SubSeq(s, Len(s) - Len(p) + 1, Len(s)) = p

\* s[n:]
SliceFrom(s, n) == IF n >= Len(s) THEN <<>> ELSE SubSeq(s, n + 1, Len(s))

\* s[:n]
SliceTo(s, n) == IF n >= Len(s) THEN s ELSE SubSeq(s, 1, n)

\* str.lstrip(c) for a single character c
RECURSIVE LStrip(_, _)
LStrip(s, c) ==
    IF s # <<>> /\ Head(s) = c THEN LStrip(Tail(s), c) ELSE s

\* str.replace(old, new) for single characters: every occurrence
ReplaceChar(s, old, new) == [i \in DOMAIN s |-> IF s[i] = old THEN new ELSE s[i]]

\* str.removesuffix
RemoveSuffix(s, suf) ==
    IF suf # <<>> /\ EndsWith(s, suf) THEN SubSeq(s, 1, Len(s) - Len(suf)) ELSE s

\* The positions at which old occurs in s
Occurrences(s, old) ==
    {i \in 1..(Len(s) - Len(old) + 1) : SubSeq(s, i, i + Len(old) - 1) = old}

Least(S) == CHOOSE x \in S : \A y \in S : x <= y

\* str.replace(old, new, 1): the first occurrence only
ReplaceFirst(s, old, new) ==
    IF Occurrences(s, old) = {} THEN s
    ELSE LET i == Least(Occurrences(s, old))
         IN  SubSeq(s, 1, i - 1) \o new \o SubSeq(s, i + Len(old), Len(s))

\* str.replace(old, new): every occurrence, left to right, without overlap
RECURSIVE ReplaceAll(_, _, _)
ReplaceAll(s, old, new) ==
    IF Len(s) < Len(old) THEN s
    ELSE IF StartsWith(s, old) THEN new \o ReplaceAll(SliceFrom(s, Len(old)), old, new)
    ELSE <<Head(s)>> \o ReplaceAll(Tail(s), old, new)

(***************************************************************************)
(* URL helpers (stac_utils.py)                                             *)
(***************************************************************************)
HttpsOneSlash == <<"h","t","t","p","s",":","/">>

HttpsTwoSlashes == <<"h","t","t","p","s",":","/","/">>

TifSuffix == <<".","t","i","f">>

JsonSuffix == <<".","j","s","o","n">>

fix_url(url) ==
    IF StartsWith(url, HttpsOneSlash) /\ ~StartsWith(url, HttpsTwoSlashes)
    THEN ReplaceFirst(url, HttpsOneSlash, HttpsTwoSlashes)
    ELSE url

url_to_item_id(url) ==
    RemoveSuffix(ReplaceChar(LStrip(SliceFrom(url, Len(PATH_S3)), "/"), "/", "-"), TifSuffix)

\* f"{PATH_S3_STAC}/{result['id']}.json"
item_href_of(item_id) == PATH_S3_STAC \o <<"/">> \o item_id \o JsonSuffix

(***************************************************************************)
(* Date extraction (stac_utils.py)                                         *)
(***************************************************************************)
Digits == {"0","1","2","3","4","5","6","7","8","9"}

DigitVal(c) ==
    CASE c = "0" -> 0 [] c = "1" -> 1 [] c = "2" -> 2 [] c = "3" -> 3 [] c = "4" -> 4
      [] c = "5" -> 5 [] c = "6" -> 6 [] c = "7" -> 7 [] c = "8" -> 8 [] c = "9" -> 9

RECURSIVE ToInt(_)
ToInt(s) == IF s = <<>> THEN 0 ELSE 10 * ToInt(SubSeq(s, 1, Len(s) - 1)) + DigitVal(s[Len(s)])

CharAt(s, i) == IF i \in DOMAIN s THEN s[i] ELSE ""

AllDigits(s, from, n) == \A k \in 0..(n - 1) : CharAt(s, from + k) \in Digits

\* The length of the run of digits of s that starts at position from, at most max
RECURSIVE DigitRun(_, _, _)
DigitRun(s, from, max) ==
    IF max = 0 \/ CharAt(s, from) \notin Digits THEN 0 ELSE 1 + DigitRun(s, from + 1, max - 1)

UtmMarker == <<"_","u","t","m">>

MinYear == 2000

MaxYear == 2050

\* Whether  _utm\d{1,2}_([0-9]{4,8})  matches at position i with n zone digits
UtmMatchAt(s, i, n) ==
    /\ i + 3 <= Len(s)
    /\ SubSeq(s, i, i + 3) = UtmMarker
    /\ AllDigits(s, i + 4, n)
    /\ CharAt(s, i + 4 + n) = "_"
    /\ DigitRun(s, i + 5 + n, 8) >= 4

\* group(1) of the match at position i with n zone digits: greedy, 4 to 8 digits
UtmGroupAt(s, i, n) == SubSeq(s, i + 5 + n, i + 4 + n + DigitRun(s, i + 5 + n, 8))

\* re.search(r'_utm\d{1,2}_([0-9]{4,8})', s): the leftmost match, two zone
\* digits tried before one; <<>> stands for no match
UtmSearch(s) ==
    LET hits == {i \in DOMAIN s : UtmMatchAt(s, i, 2) \/ UtmMatchAt(s, i, 1)}
    IN  IF hits = {} THEN <<>>
        ELSE LET i == Least(hits)
             IN  IF UtmMatchAt(s, i, 2) THEN UtmGroupAt(s, i, 2) ELSE UtmGroupAt(s, i, 1)

\* re.search(r'/([2][0-9]{3})/', s): group(1) of the leftmost match, or <<>>
YearDirSearch(s) ==
    LET hits == {i \in DOMAIN s :
                    /\ s[i] = "/"
                    /\ CharAt(s, i + 1) = "2"
                    /\ AllDigits(s, i + 2, 3)
                    /\ CharAt(s, i + 5) = "/"}
    IN  IF hits = {} THEN <<>> ELSE SubSeq(s, Least(hits) + 1, Least(hits) + 4)

\* A variant that leaves out the two years at the ends of the range
YearInRange_exclusive(year) == MinYear < year /\ year < MaxYear

\* Lines 57 and 64
YearInRange(year) == MinYear <= year /\ year <= MaxYear

\* A variant that tries the year directory before the zone-marker token
date_extract_dir_first(s) ==
    LET val == UtmSearch(s)
        fb  == YearDirSearch(s)
    IN  IF fb # <<>> /\ YearInRange(ToInt(fb)) THEN fb
        ELSE IF val # <<>> /\ YearInRange(ToInt(SubSeq(val, 1, 4))) THEN val
        ELSE <<>>

\* Returns the date string, or <<>> for None
date_extract_from_path(s) ==
    LET val == UtmSearch(s)
        fb  == YearDirSearch(s)
    IN  IF val # <<>> /\ YearInRange(ToInt(SubSeq(val, 1, 4))) THEN val
        ELSE IF fb # <<>> /\ YearInRange(ToInt(fb)) THEN fb
        ELSE <<>>

IsLeap(y) == (y % 4 = 0 /\ y % 100 # 0) \/ y % 400 = 0

DaysInMonth(y, m) ==
    IF m = 2 THEN (IF IsLeap(y) THEN 29 ELSE 28)
    ELSE IF m \in {4, 6, 9, 11} THEN 30 ELSE 31

NoDateTime == [kind |-> "none", y |-> 0, m |-> 0, d |-> 0]

ValueError == [kind |-> "raise", y |-> 0, m |-> 0, d |-> 0]

DateTime(y, m, d) == [kind |-> "datetime", y |-> y, m |-> m, d |-> d]

\* datetime.strptime(s, "%Y%m%d") on eight digits
StrptimeYmd(s) ==
    LET y == ToInt(SubSeq(s, 1, 4))
        m == ToInt(SubSeq(s, 5, 6))
        d == ToInt(SubSeq(s, 7, 8))
    IN  IF y >= 1 /\ m \in 1..12 /\ d >= 1 /\ d <= DaysInMonth(y, m)
        THEN DateTime(y, m, d) ELSE ValueError

\* datetime.strptime(s, "%Y") on four digits
StrptimeY(s) == IF ToInt(s) >= 1 THEN DateTime(ToInt(s), 1, 1) ELSE ValueError

\* s = <<>> stands for None
datetime_parse_item(s) ==
    IF s = <<>> THEN NoDateTime
    ELSE IF Len(s) = 8 THEN StrptimeYmd(s)
    ELSE IF Len(s) = 4 THEN StrptimeY(s)
    ELSE NoDateTime

PlaceholderDateTime == DateTime(2000, 1, 1)

(***************************************************************************)
(* Bounds of the model                                                     *)
(***************************************************************************)
\* The longest URL list a run reads
MaxLen == 2

\* The number of pipeline invocations in one behaviour
MaxRuns == 2

\* The largest --workers setting tried
MaxWorkers == 2

\* The number of rows of the cache store a behaviour may start from
MaxOldRows == 1

\* os.cpu_count() of the machine
CpuCount == 1

(***************************************************************************)
(* The URLs that appear in the URL list files                              *)
(***************************************************************************)
UrlAB == PATH_S3 \o <<"/","a","/","b",".","t","i","f">>

\* Another asset, whose file name holds the delimiter of item ids
UrlADashB == PATH_S3 \o <<"/","a","-","b",".","t","i","f">>

\* A zone-marker date token that is no calendar date (month 13)
UrlBadDate ==
    PATH_S3 \o <<"/","c","_","u","t","m","9","_","2","0","2","3","1","3","4","5",".","t","i","f">>

UrlPool == {UrlAB, UrlADashB, UrlBadDate}

\* A third asset in a directory, for the tools that work on item ids
UrlEF == PATH_S3 \o <<"/","e","/","f",".","t","i","f">>

\* A URL with a zone-marker date token that is a calendar date
UrlDated ==
    PATH_S3 \o <<"/","d","_","u","t","m","9","_","2","0","2","3","0","4","1","5",".","t","i","f">>

\* An asset just below the prefix: its item id holds no delimiter
UrlX == PATH_S3 \o <<"/","x",".","t","i","f">>

\* Every URL that a remote read is made of
KnownUrls == UrlPool \cup {UrlEF, UrlX, UrlDated}

\* UrlAB as a raw input string with one slash after the scheme
UrlABOneSlash == HttpsOneSlash \o SliceFrom(UrlAB, Len(HttpsTwoSlashes))

\* Sequences over S of length lo..hi
SeqsOf(S, lo, hi) == UNION {[1..n -> S] : n \in lo..hi}

UrlLists == SeqsOf(UrlPool, 0, MaxLen)

\* What a remote read of a URL finds during one run: nothing readable, a
\* cloud-optimized GeoTIFF with a CRS, or a plain GeoTIFF without a CRS
RemoteStates == {"down", "cog", "nocrs"}

\* The file behind UrlADashB has no CRS; the others are cloud-optimized with one
RemoteStatesOf(url) == IF url = UrlADashB THEN {"down", "nocrs"} ELSE {"down", "cog"}

Dirs == {"dev", "prod"}

Modes == {"full", "incremental", "reprocess_invalid"}

\* --test-count (default 10)
DefaultTestCount == 10

\* --workers (default 32)
DefaultWorkers == 32

get_output_dir(test_only) == IF test_only THEN "dev" ELSE "prod"

(***************************************************************************)
(* State                                                                   *)
(***************************************************************************)
VARIABLES
    csv,              \* data/stac_geotiff_checks.csv: [exists, readable, spatial, rows]
    collection_json,  \* collection.json of each output directory: its links
    extent_json,      \* collection.json of each output directory: its temporal extent
    item_json,        \* the item records in each output directory
    pc,               \* where the run is: idle, extract, items, join, link, done
    runs,             \* invocations started so far
    repeat,           \* "armed": the same invocation is run once more; "second": this is it
    args,             \* [script, test, mode, workers]
    urls_file_exists, \* whether the URL list file of the run is there
    urls_to_check,    \* the URL list of the run
    remote,           \* what a remote read finds, per URL, during the run
    store0,           \* the cache store as read at the start of the run
    links0,           \* the links of collection.json as loaded at the start of the run
    df_existing,      \* the cached rows kept for the merge: [spatial, rows]
    urls_to_validate, \* the URLs sent to extraction
    ext_tasks,        \* the extraction pool: per task pending, running or done
    results_lookup,   \* normalized URL -> cache entry
    collection,       \* the links of the collection object in memory
    item_tasks,       \* the item pool: per task pending, running, cancelled or its outcome
    results,          \* the ids of the items created, as main() collects them
    rc,               \* exit status of the run (-1: none yet; an uncaught exception gives 1)
    call_url,         \* the URL given to one call of process_item on its own
    derived,          \* what that call returned
    derived_again,    \* what another call on the same URL returned
    validation_csv,   \* data/stac_item_validation.csv: [exists, rows]
    urls_invalid_items, \* data/urls_invalid_items.txt: [exists, lines]
    urls_access_checks  \* data/urls_access_checks.csv: [exists, rows]

vars ==
    <<csv, collection_json, extent_json, item_json, pc, runs, repeat, args,
      urls_file_exists, urls_to_check, remote, store0, links0, df_existing, urls_to_validate, ext_tasks, results_lookup,
      collection, item_tasks, results, rc, call_url, derived, derived_again,
      validation_csv, urls_invalid_items, urls_access_checks>>

persisted == <<csv, collection_json, extent_json, item_json>>

\* The state of a single call of process_item
single_call == <<call_url, derived, derived_again>>

\* The files of the tools that find the invalid items and name their URLs
tool_files == <<validation_csv, urls_invalid_items, urls_access_checks>>

(***************************************************************************)
(* Cache rows                                                              *)
(***************************************************************************)
Row(url, is_geotiff, is_cog, epsg, height, width, transform, bounds) ==
    [url |-> url, is_geotiff |-> is_geotiff, is_cog |-> is_cog, epsg |-> epsg,
     height |-> height, width |-> width, transform |-> transform, bounds |-> bounds]

\* A row written before the spatial columns existed
OldRow(url, is_geotiff, is_cog) == Row(url, is_geotiff, is_cog, NULL, NULL, NULL, NULL, NULL)

EmptyFrame == [spatial |-> TRUE, rows |-> <<>>]

NoStore == [exists |-> FALSE, readable |-> FALSE, spatial |-> FALSE, rows |-> <<>>]

\* A store file that pd.read_csv cannot parse, such as a file of zero bytes
UnreadableStore == [exists |-> TRUE, readable |-> FALSE, spatial |-> FALSE, rows |-> <<>>]

UrlsOf(rows) == {rows[i].url : i \in DOMAIN rows}

RowsOfUrl(rows, url) == {i \in DOMAIN rows : rows[i].url = url}

OneRowPerUrl(rows) == \A i, j \in DOMAIN rows : rows[i].url = rows[j].url => i = j

\* df[~df["url"].isin(urls)]: the rows whose URL is not in urls, in order
RECURSIVE DropUrls(_, _)
DropUrls(rows, urls) ==
    IF rows = <<>> THEN <<>>
    ELSE IF Head(rows).url \in urls THEN DropUrls(Tail(rows), urls)
    ELSE <<Head(rows)>> \o DropUrls(Tail(rows), urls)

\* [x for x in s if x in keep]
RECURSIVE FilterSeq(_, _)
FilterSeq(s, keep) ==
    IF s = <<>> THEN <<>>
    ELSE IF Head(s) \in keep THEN <<Head(s)>> \o FilterSeq(Tail(s), keep)
    ELSE FilterSeq(Tail(s), keep)

(***************************************************************************)
(* The raster metadata extraction: one remote read of one URL              *)
(***************************************************************************)
geotiff_extract_metadata(url, state) ==
    IF state = "down" THEN Row(url, FALSE, FALSE, NULL, NULL, NULL, NULL, NULL)
    ELSE Row(url, TRUE, state = "cog", IF state = "nocrs" THEN NULL ELSE "3005",
             "height", "width", "transform", "bounds")

(***************************************************************************)
(* load_validation_cache (item_create.py)                                  *)
(***************************************************************************)
\* A variant of the read that never fails
read_csv_tolerant(store) == FALSE

\* Line 144: pd.read_csv raises on a store file it cannot parse
read_csv_raises(store) == store.exists /\ ~store.readable

\* Lines 143-150: the frame read from the store, or an empty one
ReadStore(store) == IF store.exists THEN [spatial |-> store.spatial, rows |-> store.rows]
                    ELSE EmptyFrame

existing_urls_of(df) == UrlsOf(df.rows)

\* A variant that tests the epsg column instead of the transform column
needs_upgrade_by_epsg(df) ==
    IF df.spatial
    THEN {df.rows[i].url : i \in {j \in DOMAIN df.rows :
                                     df.rows[j].is_geotiff /\ df.rows[j].epsg = NULL}}
    ELSE {df.rows[i].url : i \in {j \in DOMAIN df.rows : df.rows[j].is_geotiff}}

\* A variant that does not test is_geotiff
needs_upgrade_unreadable_too(df) ==
    IF df.spatial
    THEN {df.rows[i].url : i \in {j \in DOMAIN df.rows : df.rows[j].transform = NULL}}
    ELSE UrlsOf(df.rows)

\* Lines 155-161
needs_upgrade_of(df) ==
    IF df.spatial
    THEN {df.rows[i].url : i \in {j \in DOMAIN df.rows :
                                     df.rows[j].is_geotiff /\ df.rows[j].transform = NULL}}
    ELSE {df.rows[i].url : i \in {j \in DOMAIN df.rows : df.rows[j].is_geotiff}}

\* A variant that validates every requested URL again
urls_to_validate_all(urls, existing_urls, needs_upgrade) == urls

\* Lines 163-164
urls_to_validate_of(urls, existing_urls, needs_upgrade) ==
    FilterSeq(urls, {u \in Range(urls) : u \notin existing_urls \/ u \in needs_upgrade})

\* A variant that drops every old row, requested or not
drop_all_old(df, needs_upgrade, to_validate) ==
    [df EXCEPT !.rows = DropUrls(df.rows, needs_upgrade)]

\* Lines 165-170: the old rows that will be re-extracted are dropped
drop_upgrading(df, needs_upgrade, to_validate) ==
    [df EXCEPT !.rows = DropUrls(df.rows, needs_upgrade \cap Range(to_validate))]

\* A variant that keeps the new records only
concat_frames_new_only(df, new_results) == [spatial |-> TRUE, rows |-> new_results]

\* Lines 184-185: pd.concat([df_existing, df_new]) unless df_existing is empty
concat_frames(df, new_results) ==
    IF Len(df.rows) > 0 THEN [spatial |-> TRUE, rows |-> df.rows \o new_results]
    ELSE [spatial |-> TRUE, rows |-> new_results]

\* Line 186: df_all.to_csv(PATH_RESULTS_CSV, index=False)
to_csv(df) == [exists |-> TRUE, readable |-> TRUE, spatial |-> df.spatial, rows |-> df.rows]

\* Lines 195-200: one entry of the lookup
EntryOf(row, spatial) ==
    [is_geotiff |-> row.is_geotiff, is_cog |-> row.is_cog,
     epsg      |-> IF spatial THEN row.epsg ELSE NULL,
     height    |-> IF spatial THEN row.height ELSE NULL,
     width     |-> IF spatial THEN row.width ELSE NULL,
     transform |-> IF spatial THEN row.transform ELSE NULL,
     bounds    |-> IF spatial THEN row.bounds ELSE NULL]

Greatest(S) == CHOOSE x \in S : \A y \in S : y <= x

\* Lines 193-202: a later row of the same normalized URL overwrites an earlier one
build_lookup(df) ==
    [key \in {fix_url(df.rows[i].url) : i \in DOMAIN df.rows} |->
        EntryOf(df.rows[Greatest({i \in DOMAIN df.rows : fix_url(df.rows[i].url) = key})],
                df.spatial)]

EmptyLookup == build_lookup(EmptyFrame)

(***************************************************************************)
(* process_item (item_create.py)                                           *)
(***************************************************************************)
ITEM_REL == "item"

ItemLink(target) == [rel |-> ITEM_REL, target |-> target]

RootLink == [rel |-> "root", target |-> PATH_S3_STAC \o <<"/","c","o","l","l","e","c","t","i","o","n">> \o JsonSuffix]

NoItem ==
    [id |-> <<>>, href |-> <<>>, datetime |-> NoDateTime, datetime_unknown |-> FALSE,
     media_type |-> NULL, read |-> NULL]

\* Lines 80-84
media_type_of(check) ==
    IF check.is_cog THEN "image/tiff; application=geotiff; profile=cloud-optimized"
    ELSE "image/tiff; application=geotiff"

\* Lines 89-97: the item is composed from the cached metadata, with no remote
\* read; an item cannot be composed without a timestamp
item_create_from_cache(url, item_id, check, media_type, item_datetime) ==
    IF item_datetime.kind # "datetime" THEN [ok |-> FALSE, item |-> NoItem]
    ELSE [ok |-> TRUE,
          item |-> [id |-> item_id, href |-> fix_url(url), datetime |-> item_datetime,
                    datetime_unknown |-> FALSE, media_type |-> media_type, read |-> "cache"]]

\* Lines 99-113: rio_stac reads the remote file; the read fails when it is unreadable
create_stac_item(url, item_id, media_type, remote_state) ==
    IF remote_state = "down" THEN [ok |-> FALSE, item |-> NoItem]
    ELSE [ok |-> TRUE,
          item |-> [id |-> item_id, href |-> fix_url(url), datetime |-> NoDateTime,
                    datetime_unknown |-> FALSE, media_type |-> media_type, read |-> "remote"]]

\* Lines 70-78: <<item_time, datetime_is_unknown>>
item_time_of(path_item) ==
    LET date_str == date_extract_from_path(path_item)
    IN  IF date_str # <<>> THEN <<datetime_parse_item(date_str), FALSE>>
        ELSE <<PlaceholderDateTime, TRUE>>

\* process_item without line 115: the item keeps the timestamp it was built with
process_item_keeps_built_time(path_item, lookup, remote_state) ==
    LET href_item == fix_url(path_item)
        skip      == href_item \notin DOMAIN lookup \/ ~lookup[href_item].is_geotiff
        check     == lookup[href_item]
        timed     == item_time_of(path_item)
        built     == IF check.epsg # NULL
                     THEN item_create_from_cache(path_item, url_to_item_id(path_item), check,
                                                 media_type_of(check), timed[1])
                     ELSE create_stac_item(path_item, url_to_item_id(path_item),
                                           media_type_of(check), remote_state)
    IN  IF skip THEN [kind |-> "none", item |-> NoItem]
        ELSE IF timed[1].kind = "raise" THEN [kind |-> "raise", item |-> NoItem]
        ELSE IF ~built.ok THEN [kind |-> "none", item |-> NoItem]
        ELSE [kind |-> "item", item |-> [built.item EXCEPT !.datetime_unknown = timed[2]]]

\* Lines 61-126. kind "item": the item record was saved and is returned; "none":
\* None is returned; "raise": an exception leaves process_item
process_item(path_item, lookup, remote_state) ==
    LET href_item == fix_url(path_item)
        skip      == href_item \notin DOMAIN lookup \/ ~lookup[href_item].is_geotiff
        check     == lookup[href_item]
        item_id   == url_to_item_id(path_item)
        timed     == item_time_of(path_item)
        media     == media_type_of(check)
        built     == IF check.epsg # NULL
                     THEN item_create_from_cache(path_item, item_id, check, media, timed[1])
                     ELSE create_stac_item(path_item, item_id, media, remote_state)
    IN  IF skip THEN [kind |-> "none", item |-> NoItem]
        ELSE IF timed[1].kind = "raise" THEN [kind |-> "raise", item |-> NoItem]
        ELSE IF ~built.ok THEN [kind |-> "none", item |-> NoItem]
        ELSE [kind |-> "item",
              item |-> [built.item EXCEPT !.datetime = timed[1], !.datetime_unknown = timed[2]]]

\* item.save_object(dest_href=f"{path_local}/{item_id}.json"): one file per id
save_item(files, item) == {f \in files : f.id # item.id} \cup {item}

(***************************************************************************)
(* The link merge of main() (item_create.py)                               *)
(***************************************************************************)
ItemLinks(links) == FilterSeq(links, {l \in Range(links) : l.rel = ITEM_REL})

OtherLinks(links) == FilterSeq(links, {l \in Range(links) : l.rel # ITEM_REL})

ItemHrefs(links) == {l.target : l \in Range(ItemLinks(links))}

\* Lines 299-309: existing is the set of hrefs computed before the loop
RECURSIVE add_links(_, _, _)
add_links(links, ids, existing) ==
    IF ids = <<>> THEN links
    ELSE IF item_href_of(Head(ids)) \notin existing
         THEN add_links(Append(links, ItemLink(item_href_of(Head(ids)))), Tail(ids), existing)
         ELSE add_links(links, Tail(ids), existing)

\* Lines 294-314
merge_links(links, ids) ==
    IF ids # <<>> THEN add_links(links, ids, ItemHrefs(links)) ELSE links

\* Lines 262-268: the item links and the item files matching *-*.json are removed
clear_links(links) == OtherLinks(links)

clear_files(files) == {f \in files : "-" \notin Range(f.id)}

(***************************************************************************)
(* Thread pools                                                            *)
(***************************************************************************)
\* ThreadPoolExecutor(): max_workers defaults to min(32, os.cpu_count() + 4)
DefaultMaxWorkers == IF CpuCount + 4 < 32 THEN CpuCount + 4 ELSE 32

Running(tasks) == {i \in DOMAIN tasks : tasks[i] = "running"}

\* The work queue is first in, first out
NextPending(tasks, i) ==
    /\ i \in DOMAIN tasks
    /\ tasks[i] = "pending"
    /\ \A j \in 1..(i - 1) : tasks[j] # "pending"

AllPending(urls) == [i \in DOMAIN urls |-> "pending"]

Finished == {"item", "none"}

\* The ids of the items created, in the order of the URL list (filter(None, ...))
RECURSIVE collect(_, _)
collect(tasks, urls) ==
    IF tasks = <<>> THEN <<>>
    ELSE IF Head(tasks) = "item"
         THEN <<url_to_item_id(Head(urls))>> \o collect(Tail(tasks), Tail(urls))
         ELSE collect(Tail(tasks), Tail(urls))

(***************************************************************************)
(* collection_create.py: the temporal extent of the collection             *)
(***************************************************************************)
\* What data/urls_list.txt may hold when collection_create reads it
CollectionUrlLists == SeqsOf({UrlAB, UrlBadDate, UrlDated}, 0, MaxLen)

\* Line 77: one parse per URL
parsed_times(path_items) ==
    [i \in DOMAIN path_items |-> datetime_parse_item(date_extract_from_path(path_items[i]))]

\* Line 78: the ones that are not None
times_of(parsed) == {parsed[i] : i \in {j \in DOMAIN parsed : parsed[j].kind = "datetime"}}

DateLeq(a, b) ==
    \/ a.y < b.y
    \/ a.y = b.y /\ a.m < b.m
    \/ a.y = b.y /\ a.m = b.m /\ a.d <= b.d

\* Lines 84-86: [min(times), max(times)]
temporal_extent_of(times) ==
    [start |-> CHOOSE t \in times : \A u \in times : DateLeq(t, u),
     end   |-> CHOOSE t \in times : \A u \in times : DateLeq(u, t)]

(***************************************************************************)
(* Initial states: each collection.json as collection_create wrote it, no  *)
(* item records, and no cache store, an unreadable one, or one written     *)
(* before the spatial columns existed, with one row per URL                *)
(***************************************************************************)
OldRows == {OldRow(u, g, g) : u \in UrlPool, g \in BOOLEAN}

OldStores ==
    {[exists |-> TRUE, readable |-> TRUE, spatial |-> FALSE, rows |-> rows] :
        rows \in {r \in SeqsOf(OldRows, 1, MaxOldRows) : OneRowPerUrl(r)}}

NoArgs == [script |-> "none", test |-> FALSE, mode |-> "none", workers |-> 1]

AllDown == [u \in KnownUrls |-> "down"]

NotCalled == [kind |-> "not called", item |-> NoItem]

\* A text file that is not there
NoFile == [exists |-> FALSE, rows |-> <<>>]

\* The variables of a run, before it and after the process has ended
NoRun ==
    /\ pc = "idle"
    /\ repeat = "no"
    /\ args = NoArgs
    /\ urls_file_exists = TRUE
    /\ urls_to_check = <<>>
    /\ remote = AllDown
    /\ store0 = NoStore
    /\ links0 = <<>>
    /\ df_existing = EmptyFrame
    /\ urls_to_validate = <<>>
    /\ ext_tasks = <<>>
    /\ results_lookup = EmptyLookup
    /\ collection = <<>>
    /\ item_tasks = <<>>
    /\ results = <<>>
    /\ rc = -1

Init ==
    /\ csv \in {NoStore, UnreadableStore} \cup OldStores
    /\ collection_json = [d \in Dirs |-> <<RootLink>>]
    /\ extent_json = [d \in Dirs |-> temporal_extent_of(times_of(parsed_times(<<UrlDated>>)))]
    /\ item_json = [d \in Dirs |-> {}]
    /\ runs = 0
    /\ NoRun
    /\ call_url = <<>>
    /\ derived = NotCalled
    /\ derived_again = NotCalled
    /\ validation_csv = NoFile
    /\ urls_invalid_items = NoFile
    /\ urls_access_checks = NoFile

\* What a run sets when it starts
run_inputs == <<args, urls_file_exists, urls_to_check, remote, store0, links0>>

\* What load_validation_cache holds before the extraction pool
cache_locals == <<df_existing, urls_to_validate>>

(***************************************************************************)
(* main() of item_create.py, up to the extraction pool (lines 224-275 and  *)
(* 141-173)                                                                *)
(***************************************************************************)
path_local == get_output_dir(args.test)

\* A variant in which every test run starts from a clean slate
clean_slate_any_test(test, mode) == test

\* Lines 256-272: only a test run that is neither incremental nor a reprocess
\* starts from a clean slate
clean_slate(test, mode) == test /\ mode = "full"

\* Line 252
urls_to_check_of(path_items, test, test_count) ==
    IF test THEN SliceTo(path_items, test_count) ELSE path_items

Begin(test, clean, workers, urls, r, rep, mode) ==
    LET dir    == get_output_dir(test)
        loaded == collection_json[dir]
        df     == ReadStore(csv)
        tv     == urls_to_validate_of(urls, existing_urls_of(df), needs_upgrade_of(df))
        kept   == drop_upgrading(df, needs_upgrade_of(df), tv)
    IN  /\ args' = [script |-> "item_create", test |-> test, mode |-> mode, workers |-> workers]
        /\ urls_file_exists' = TRUE
        /\ urls_to_check' = urls
        /\ remote' = r
        /\ repeat' = rep
        /\ store0' = csv
        /\ links0' = loaded
        /\ collection' = IF clean THEN clear_links(loaded) ELSE loaded
        /\ item_json' = IF clean THEN [item_json EXCEPT ![dir] = clear_files(@)] ELSE item_json
        /\ results' = <<>>
        /\ IF read_csv_raises(csv)
           THEN \* the exception leaves main(): traceback, exit status 1
                /\ pc' = "done"
                /\ rc' = 1
                /\ df_existing' = EmptyFrame
                /\ urls_to_validate' = <<>>
                /\ ext_tasks' = <<>>
                /\ results_lookup' = EmptyLookup
                /\ item_tasks' = <<>>
           ELSE /\ rc' = -1
                /\ df_existing' = kept
                /\ urls_to_validate' = tv
                /\ IF tv # <<>>
                   THEN /\ pc' = "extract"
                        /\ ext_tasks' = AllPending(tv)
                        /\ results_lookup' = EmptyLookup
                        /\ item_tasks' = <<>>
                   ELSE /\ pc' = "items"
                        /\ ext_tasks' = <<>>
                        /\ results_lookup' = build_lookup(kept)
                        /\ item_tasks' = AllPending(urls)
        /\ UNCHANGED <<single_call, tool_files, csv, collection_json, extent_json>>

\* The --workers settings tried: small ones and the default
WorkerSettings == (1..(MaxWorkers - 1)) \cup {DefaultWorkers}

RemoteChoices(urls) ==
    {r \in [KnownUrls -> RemoteStates] :
        \A u \in KnownUrls : r[u] \in (IF u \in Range(urls) THEN RemoteStatesOf(u) ELSE {"down"})}

\* The URL list file is absent: lines 245-247
StartNoUrlFile ==
    /\ pc = "idle"
    /\ runs < MaxRuns
    /\ \E test \in BOOLEAN, mode \in Modes :
          /\ args' = [script |-> "item_create", test |-> test, mode |-> mode, workers |-> 1]
          /\ links0' = collection_json[get_output_dir(test)]
          /\ collection' = collection_json[get_output_dir(test)]
    /\ urls_file_exists' = FALSE
    /\ store0' = csv
    /\ rc' = 1
    /\ pc' = "done"
    /\ runs' = runs + 1
    /\ UNCHANGED <<single_call, tool_files, persisted, cache_locals, repeat, urls_to_check,
                   remote, ext_tasks, results_lookup, item_tasks, results>>

\* The modes tried by Spec: main() depends on the mode only through the clean
\* slate of lines 256-272, which no run outside test mode takes
ModesTried == [test \in BOOLEAN |-> IF test THEN {"full", "incremental"} ELSE {"full"}]

\* A run of item_create in one of the modes of modes_of, on one of url_lists
StartRunWith(modes_of, url_lists) ==
    /\ pc = "idle"
    /\ runs < MaxRuns
    /\ runs' = runs + 1
    /\ \E test \in BOOLEAN, workers \in WorkerSettings,
          test_count \in {1, DefaultTestCount}, path_items \in url_lists, twice \in BOOLEAN :
       \E mode \in modes_of[test] :
          /\ twice => (~test /\ runs + 1 < MaxRuns)
          /\ \E r \in RemoteChoices(urls_to_check_of(path_items, test, test_count)) :
                Begin(test, clean_slate(test, mode), workers,
                      urls_to_check_of(path_items, test, test_count), r,
                      IF twice THEN "armed" ELSE "no", mode)

StartRun == StartRunWith(ModesTried, UrlLists)

\* The same invocation once more: same mode, same URL list, same remote state
RepeatRun ==
    /\ pc = "done"
    /\ repeat = "armed"
    /\ runs < MaxRuns
    /\ runs' = runs + 1
    /\ Begin(args.test, FALSE, args.workers, urls_to_check, remote, "second", args.mode)

(***************************************************************************)
(* item_reprocess.py                                                       *)
(***************************************************************************)
\* max_workers=32 (line 154)
ReprocessWorkers == 32

\* Lines 128-131: a later row of the same normalized URL overwrites an earlier one
reprocess_lookup(rows) ==
    [key \in {fix_url(rows[i].url) : i \in DOMAIN rows} |->
        LET last == rows[Greatest({i \in DOMAIN rows : fix_url(rows[i].url) = key})]
        IN  [is_geotiff |-> last.is_geotiff, is_cog |-> last.is_cog]]

\* Lines 41-106: every item is made by a remote read
process_item_reprocess(path_url, lookup, remote_state) ==
    LET href_item == fix_url(path_url)
        skip      == href_item \notin DOMAIN lookup \/ ~lookup[href_item].is_geotiff
        timed     == item_time_of(path_url)
        built     == create_stac_item(path_url, url_to_item_id(path_url),
                                      media_type_of(lookup[href_item]), remote_state)
    IN  IF skip THEN [kind |-> "none", item |-> NoItem]
        ELSE IF timed[1].kind = "raise" THEN [kind |-> "raise", item |-> NoItem]
        ELSE IF ~built.ok THEN [kind |-> "none", item |-> NoItem]
        ELSE [kind |-> "item",
              item |-> [built.item EXCEPT !.datetime = timed[1], !.datetime_unknown = timed[2]]]

\* main() up to the pool: lines 114-151
StartReprocess ==
    /\ pc = "idle"
    /\ runs < MaxRuns
    /\ runs' = runs + 1
    /\ args' = [script |-> "item_reprocess", test |-> FALSE, mode |-> "none",
                 workers |-> ReprocessWorkers]
    /\ repeat' = "no"
    /\ store0' = csv
    /\ links0' = collection_json[get_output_dir(FALSE)]
    /\ collection' = collection_json[get_output_dir(FALSE)]
    /\ results' = <<>>
    /\ ext_tasks' = <<>>
    /\ \E file \in BOOLEAN, path_items \in UrlLists :
          LET stops == ~csv.exists \/ read_csv_raises(csv) \/ ~file
          IN  /\ stops => path_items = <<>>
              /\ urls_file_exists' = file
              /\ urls_to_check' = path_items
              /\ \E r \in RemoteChoices(path_items) : remote' = r
              /\ results_lookup' = IF ~csv.exists \/ read_csv_raises(csv) THEN EmptyLookup
                                   ELSE reprocess_lookup(csv.rows)
              /\ item_tasks' = AllPending(path_items)
              /\ pc' = IF stops THEN "done" ELSE "items"
              /\ rc' = IF stops THEN 1 ELSE -1
    /\ UNCHANGED <<single_call, tool_files, persisted, cache_locals>>

(***************************************************************************)
(* main() of collection_create.py                                          *)
(***************************************************************************)
\* Lines 54-60: every *.json of the directory but collection.json
remove_items(files) == {}

CollectionCreate ==
    /\ pc = "idle"
    /\ runs < MaxRuns
    /\ runs' = runs + 1
    /\ \E test \in BOOLEAN, file \in BOOLEAN, test_count \in {1, DefaultTestCount},
          path_items \in CollectionUrlLists :
          LET dir    == get_output_dir(test)
              urls   == urls_to_check_of(path_items, test, test_count)
              parsed == parsed_times(urls)
              raised == \E i \in DOMAIN parsed : parsed[i].kind = "raise"
              times  == times_of(parsed)
              saves  == file /\ ~raised /\ times # {}
          IN  /\ ~file => path_items = <<>>
              /\ args' = [script |-> "collection_create", test |-> test, mode |-> "none",
                           workers |-> 1]
              /\ urls_file_exists' = file
              /\ urls_to_check' = urls
              /\ links0' = collection_json[dir]
              /\ item_json' = IF test THEN [item_json EXCEPT ![dir] = remove_items(@)]
                              ELSE item_json
              /\ collection' = IF saves THEN <<RootLink>> ELSE <<>>
              /\ collection_json' = IF saves THEN [collection_json EXCEPT ![dir] = <<RootLink>>]
                                    ELSE collection_json
              /\ extent_json' = IF saves
                                THEN [extent_json EXCEPT ![dir] = temporal_extent_of(times)]
                                ELSE extent_json
              /\ rc' = IF saves THEN 0 ELSE 1
    /\ store0' = csv
    /\ pc' = "done"
    /\ UNCHANGED <<single_call, tool_files, csv, cache_locals, repeat, remote, ext_tasks,
                   results_lookup, item_tasks, results>>

(***************************************************************************)
(* The extraction pool and the cache merge (lines 175-202)                 *)
(***************************************************************************)
ExtractStart(i) ==
    /\ pc = "extract"
    /\ NextPending(ext_tasks, i)
    /\ Cardinality(Running(ext_tasks)) < DefaultMaxWorkers
    /\ ext_tasks' = [ext_tasks EXCEPT ![i] = "running"]
    /\ UNCHANGED <<single_call, tool_files, persisted, run_inputs, cache_locals, pc, runs,
                   repeat, results_lookup, collection, item_tasks, results, rc>>

ExtractFinish(i) ==
    /\ pc = "extract"
    /\ i \in DOMAIN ext_tasks
    /\ ext_tasks[i] = "running"
    /\ ext_tasks' = [ext_tasks EXCEPT ![i] = "done"]
    /\ UNCHANGED <<single_call, tool_files, persisted, run_inputs, cache_locals, pc, runs,
                   repeat, results_lookup, collection, item_tasks, results, rc>>

\* A variant in which one failed extraction leaves the batch without results
new_results_abort(urls, r) ==
    IF \E i \in DOMAIN urls : r[urls[i]] = "down" THEN <<>>
    ELSE [i \in DOMAIN urls |-> geotiff_extract_metadata(urls[i], r[urls[i]])]

\* list(executor.map(geotiff_extract_metadata, urls_to_validate)): in input order
new_results_of(urls, r) == [i \in DOMAIN urls |-> geotiff_extract_metadata(urls[i], r[urls[i]])]

\* A variant that merges as soon as one extraction is done
pool_streaming(tasks) == \E i \in DOMAIN tasks : tasks[i] = "done"

\* Line 177-182: leaving the with block waits for every task of the pool
pool_joined(tasks) == \A i \in DOMAIN tasks : tasks[i] = "done"

MergePersist ==
    /\ pc = "extract"
    /\ pool_joined(ext_tasks)
    /\ LET df_all == concat_frames(df_existing, new_results_of(urls_to_validate, remote))
       IN  /\ csv' = to_csv(df_all)
           /\ results_lookup' = build_lookup(df_all)
    /\ item_tasks' = AllPending(urls_to_check)
    /\ pc' = "items"
    /\ UNCHANGED <<single_call, tool_files, collection_json, extent_json, item_json, run_inputs,
                   cache_locals, runs, repeat, ext_tasks, collection, results, rc>>

\* What a stop of the process during line 186 can leave at the path of the
\* store: to_csv opens the file for writing, which empties it, and writes the
\* header and then the rows
partial_files(df) ==
    {UnreadableStore} \cup
    {[exists |-> TRUE, readable |-> TRUE, spatial |-> df.spatial, rows |-> SubSeq(df.rows, 1, k)] :
        k \in 0..(Len(df.rows) - 1)}

\* The process stops while df_all.to_csv writes the store
CrashInPersist ==
    /\ pc = "extract"
    /\ pool_joined(ext_tasks)
    /\ csv' \in partial_files(concat_frames(df_existing, new_results_of(urls_to_validate, remote)))
    /\ pc' = "crashed"
    /\ UNCHANGED <<single_call, tool_files, collection_json, extent_json, item_json, run_inputs,
                   cache_locals, runs, repeat, ext_tasks, results_lookup, collection,
                   item_tasks, results, rc>>

(***************************************************************************)
(* The item pool and the link merge (item_create.py lines 277-320,         *)
(* item_reprocess.py lines 153-193)                                        *)
(***************************************************************************)
ItemStart(i) ==
    /\ pc = "items"
    /\ NextPending(item_tasks, i)
    /\ Cardinality(Running(item_tasks)) < args.workers
    /\ item_tasks' = [item_tasks EXCEPT ![i] = "running"]
    /\ UNCHANGED <<single_call, tool_files, persisted, run_inputs, cache_locals, pc, runs,
                   repeat, ext_tasks, results_lookup, collection, results, rc>>

(***************************************************************************)
(* item_extract_invalid.py and reprocess_invalid_items.py                  *)
(***************************************************************************)
\* item_extract_invalid.py lines 24-36: every "-" of the id becomes "/"
item_id_to_url(item_id) == PATH_S3 \o <<"/">> \o ReplaceChar(item_id, "-", "/") \o TifSuffix

\* item_extract_invalid.py lines 46-51: the rows with json_valid false, in order
invalid_items_of(rows) == FilterSeq(rows, {row \in Range(rows) : ~row.json_valid})

\* reprocess_invalid_items.py lines 71 and 152: .replace("https:/", "https://")
replace_https(url) == ReplaceAll(url, HttpsOneSlash, HttpsTwoSlashes)

\* reprocess_invalid_items.py line 79: the id, with no lstrip of the separator
invalid_item_id(path_item) ==
    RemoveSuffix(ReplaceChar(SliceFrom(path_item, Len(PATH_S3)), "/", "-"), TifSuffix)

\* reprocess_invalid_items.py lines 151-154
invalid_lookup(rows) ==
    [key \in {replace_https(rows[i].url) : i \in DOMAIN rows} |->
        LET last == rows[Greatest({i \in DOMAIN rows : replace_https(rows[i].url) = key})]
        IN  [is_geotiff |-> last.is_geotiff, is_cog |-> last.is_cog]]

\* reprocess_invalid_items.py lines 65-129: the item is made by a remote read
\* and its asset href is href_item
process_item_invalid(path_item, lookup, remote_state) ==
    LET href_item == replace_https(path_item)
        skip      == href_item \notin DOMAIN lookup \/ ~lookup[href_item].is_geotiff
        timed     == item_time_of(path_item)
        built     == create_stac_item(path_item, invalid_item_id(path_item),
                                      media_type_of(lookup[href_item]), remote_state)
    IN  IF skip THEN [kind |-> "none", item |-> NoItem]
        ELSE IF timed[1].kind = "raise" THEN [kind |-> "raise", item |-> NoItem]
        ELSE IF ~built.ok THEN [kind |-> "none", item |-> NoItem]
        ELSE [kind |-> "item",
              item |-> [built.item EXCEPT !.href = href_item, !.datetime = timed[1],
                                          !.datetime_unknown = timed[2]]]

\* main() of item_extract_invalid.py (lines 38-86)
ExtractInvalid ==
    /\ pc = "idle"
    /\ runs < MaxRuns
    /\ runs' = runs + 1
    /\ args' = [script |-> "item_extract_invalid", test |-> FALSE, mode |-> "none",
                 workers |-> 1]
    /\ LET invalid_items == invalid_items_of(validation_csv.rows)
           urls == [i \in DOMAIN invalid_items |-> item_id_to_url(invalid_items[i].item_id)]
       IN  IF ~validation_csv.exists
           THEN \* open() raises FileNotFoundError: traceback, exit status 1
                /\ rc' = 1
                /\ urls_invalid_items' = urls_invalid_items
           ELSE /\ rc' = 0
                /\ urls_invalid_items' = IF invalid_items = <<>> THEN urls_invalid_items
                                         ELSE [exists |-> TRUE, rows |-> urls]
    /\ pc' = "done"
    /\ UNCHANGED <<single_call, persisted, validation_csv, urls_access_checks, cache_locals, repeat,
                   urls_file_exists, urls_to_check, remote, store0, links0, ext_tasks,
                   results_lookup, collection, item_tasks, results>>

(***************************************************************************)
(* item_validate.py                                                        *)
(***************************************************************************)
\* Lines 157-158: the ids of the item files matching *-*.json
glob_item_ids(files) == {f.id : f \in {g \in files : "-" \in Range(g.id)}}

\* Lines 94-107: a dict keyed by item id, in the order of the first row of
\* each id, holding the last row of each id
RECURSIVE load_existing_results(_)
load_existing_results(rows) ==
    IF rows = <<>> THEN <<>>
    ELSE LET before == load_existing_results(SubSeq(rows, 1, Len(rows) - 1))
             last   == rows[Len(rows)]
         IN  IF \E i \in DOMAIN before : before[i].item_id = last.item_id
             THEN [i \in DOMAIN before |->
                      IF before[i].item_id = last.item_id THEN last ELSE before[i]]
             ELSE Append(before, last)

\* A variant that validates every item file found
items_to_validate_all(found, existing) == found

\* Lines 166-177: in incremental mode with existing results, the files whose
\* id is not among them; otherwise every file found
items_to_validate_of(found, existing) ==
    IF existing # <<>> THEN found \ {existing[i].item_id : i \in DOMAIN existing}
    ELSE found

\* Lines 186-190: one result per file, in the order of glob, each valid or not
validation_results_of(ids) ==
    {r \in SeqsOf([item_id : ids, json_valid : BOOLEAN], Cardinality(ids), Cardinality(ids)) :
        \A i, j \in DOMAIN r : r[i].item_id = r[j].item_id => i = j}

\* Line 240
exit_status_of(all_results) ==
    IF \E i \in DOMAIN all_results : ~all_results[i].json_valid THEN 1 ELSE 0

\* main() of item_validate.py (lines 122-240); results holds the ids of
\* validation_results
ItemValidate ==
    /\ pc = "idle"
    /\ runs < MaxRuns
    /\ runs' = runs + 1
    /\ \E incremental \in BOOLEAN :
          LET found    == glob_item_ids(item_json[get_output_dir(FALSE)])
              existing == IF incremental /\ validation_csv.exists
                          THEN load_existing_results(validation_csv.rows) ELSE <<>>
              todo     == items_to_validate_of(found, existing)
          IN  /\ args' = [script |-> "item_validate", test |-> FALSE,
                          mode |-> IF incremental THEN "incremental" ELSE "full",
                          workers |-> 1]
              /\ IF found = {}
                 THEN \* lines 160-162
                      /\ rc' = 1
                      /\ results' = <<>>
                      /\ validation_csv' = validation_csv
                 ELSE IF todo = {}
                 THEN \* lines 179-181
                      /\ rc' = 0
                      /\ results' = <<>>
                      /\ validation_csv' = validation_csv
                 ELSE \E validation_results \in validation_results_of(todo) :
                         /\ validation_csv' = [exists |-> TRUE,
                                               rows |-> existing \o validation_results]
                         /\ results' = [i \in DOMAIN validation_results |->
                                           validation_results[i].item_id]
                         /\ rc' = exit_status_of(existing \o validation_results)
    /\ pc' = "done"
    /\ UNCHANGED <<single_call, persisted, urls_invalid_items, urls_access_checks, cache_locals, repeat,
                   urls_file_exists, urls_to_check, remote, store0, links0, ext_tasks,
                   results_lookup, collection, item_tasks>>

\* main() of reprocess_invalid_items.py up to the pool (lines 131-174)
StartReprocessInvalid ==
    /\ pc = "idle"
    /\ runs < MaxRuns
    /\ runs' = runs + 1
    /\ args' = [script |-> "reprocess_invalid_items", test |-> FALSE, mode |-> "none",
                 workers |-> ReprocessWorkers]
    /\ repeat' = "no"
    /\ store0' = csv
    /\ links0' = collection_json[get_output_dir(FALSE)]
    /\ collection' = collection_json[get_output_dir(FALSE)]
    /\ results' = <<>>
    /\ ext_tasks' = <<>>
    /\ LET no_cache == ~csv.exists \/ read_csv_raises(csv)
           stops    == no_cache \/ ~urls_invalid_items.exists
           urls     == IF stops THEN <<>> ELSE urls_invalid_items.rows
       IN  /\ urls_file_exists' = (no_cache \/ urls_invalid_items.exists)
           /\ urls_to_check' = urls
           /\ \E r \in RemoteChoices(urls) : remote' = r
           /\ results_lookup' = IF no_cache THEN EmptyLookup ELSE invalid_lookup(csv.rows)
           /\ item_tasks' = AllPending(urls)
           /\ pc' = IF stops THEN "done" ELSE "items"
           /\ rc' = IF stops THEN 1 ELSE -1
    /\ UNCHANGED <<single_call, tool_files, persisted, cache_locals>>

\* The call a task of the pool makes
task_outcome(i) ==
    IF args.script = "item_reprocess"
    THEN process_item_reprocess(urls_to_check[i], results_lookup, remote[urls_to_check[i]])
    ELSE IF args.script = "reprocess_invalid_items"
    THEN process_item_invalid(urls_to_check[i], results_lookup, remote[urls_to_check[i]])
    ELSE process_item(urls_to_check[i], results_lookup, remote[urls_to_check[i]])

ItemFinish(i) ==
    /\ pc \in {"items", "join"}
    /\ i \in DOMAIN item_tasks
    /\ item_tasks[i] = "running"
    /\ LET out == task_outcome(i)
       IN  /\ item_tasks' = [item_tasks EXCEPT ![i] = out.kind]
           /\ item_json' = IF out.kind = "item"
                           THEN [item_json EXCEPT ![path_local] = save_item(@, out.item)]
                           ELSE item_json
    /\ UNCHANGED <<single_call, tool_files, csv, collection_json, extent_json, run_inputs,
                   cache_locals, pc, runs, repeat, ext_tasks, results_lookup, collection,
                   results, rc>>

\* Every task returned: results = list(filter(None, ...))
CollectResults ==
    /\ pc = "items"
    /\ \A i \in DOMAIN item_tasks : item_tasks[i] \in Finished
    /\ results' = collect(item_tasks, urls_to_check)
    /\ pc' = "link"
    /\ UNCHANGED <<single_call, tool_files, persisted, run_inputs, cache_locals, runs,
                   repeat, ext_tasks, results_lookup, collection, item_tasks, rc>>

\* The first task, in input order, that raised: the iterator of executor.map
\* re-raises in main() and cancels the futures that have not started
CollectRaise ==
    /\ pc = "items"
    /\ \E i \in DOMAIN item_tasks :
          /\ item_tasks[i] = "raise"
          /\ \A j \in 1..(i - 1) : item_tasks[j] \in Finished
    /\ item_tasks' = [i \in DOMAIN item_tasks |->
                         IF item_tasks[i] = "pending" THEN "cancelled" ELSE item_tasks[i]]
    /\ pc' = "join"
    /\ UNCHANGED <<single_call, tool_files, persisted, run_inputs, cache_locals, runs,
                   repeat, ext_tasks, results_lookup, collection, results, rc>>

\* item_create.py lines 289-291: the pool is shut down (running tasks finish),
\* results = []
JoinAfterRaise ==
    /\ pc = "join"
    /\ args.script = "item_create"
    /\ Running(item_tasks) = {}
    /\ results' = <<>>
    /\ pc' = "link"
    /\ UNCHANGED <<single_call, tool_files, persisted, run_inputs, cache_locals, runs,
                   repeat, ext_tasks, results_lookup, collection, item_tasks, rc>>

\* item_create.py lines 293-320
LinkMergeSave ==
    /\ pc = "link"
    /\ args.script = "item_create"
    /\ collection' = merge_links(collection, results)
    /\ collection_json' = [collection_json EXCEPT ![path_local] = merge_links(collection, results)]
    /\ rc' = 0
    /\ pc' = "done"
    /\ UNCHANGED <<single_call, tool_files, csv, extent_json, item_json, run_inputs,
                   cache_locals, runs, repeat, ext_tasks, results_lookup, item_tasks,
                   results>>

\* item_reprocess.py lines 166-168: the pool is shut down, return 1
ReprocessRaise ==
    /\ pc = "join"
    /\ args.script = "item_reprocess"
    /\ Running(item_tasks) = {}
    /\ rc' = 1
    /\ pc' = "done"
    /\ UNCHANGED <<single_call, tool_files, persisted, run_inputs, cache_locals, runs,
                   repeat, ext_tasks, results_lookup, collection, item_tasks, results>>

\* item_reprocess.py lines 170-193 and reprocess_invalid_items.py lines
\* 193-216: the summary, return 0
ReprocessSummary ==
    /\ pc = "link"
    /\ args.script \in {"item_reprocess", "reprocess_invalid_items"}
    /\ rc' = 0
    /\ pc' = "done"
    /\ UNCHANGED <<single_call, tool_files, persisted, run_inputs, cache_locals, runs,
                   repeat, ext_tasks, results_lookup, collection, item_tasks, results>>

\* The process ends
Exit ==
    /\ \/ pc = "done" /\ repeat # "armed"
       \/ pc = "crashed"
    /\ pc' = "idle"
    /\ repeat' = "no"
    /\ args' = NoArgs
    /\ urls_file_exists' = TRUE
    /\ urls_to_check' = <<>>
    /\ remote' = AllDown
    /\ store0' = NoStore
    /\ links0' = <<>>
    /\ df_existing' = EmptyFrame
    /\ urls_to_validate' = <<>>
    /\ ext_tasks' = <<>>
    /\ results_lookup' = EmptyLookup
    /\ collection' = <<>>
    /\ item_tasks' = <<>>
    /\ results' = <<>>
    /\ rc' = -1
    /\ UNCHANGED <<single_call, tool_files, persisted, runs>>

Next ==
    \/ StartRun
    \/ StartNoUrlFile
    \/ RepeatRun
    \/ StartReprocess
    \/ CollectionCreate
    \/ \E i \in 1..MaxLen : ExtractStart(i)
    \/ \E i \in 1..MaxLen : ExtractFinish(i)
    \/ MergePersist
    \/ CrashInPersist
    \/ \E i \in 1..MaxLen : ItemStart(i)
    \/ \E i \in 1..MaxLen : ItemFinish(i)
    \/ CollectResults
    \/ CollectRaise
    \/ JoinAfterRaise
    \/ LinkMergeSave
    \/ ReprocessRaise
    \/ ReprocessSummary
    \/ Exit

Spec == Init /\ [][Next]_vars

(***************************************************************************)
(* One call of process_item on its own, over URLs with every kind of date  *)
(* token (item_create.py lines 52-126)                                     *)
(***************************************************************************)
\* The digit tokens tried after the zone marker: a date, a year, tokens of 5,
\* 6, 7 and 9 digits, tokens that are no calendar date, years at and beyond
\* the bounds of the accepted range
DateTokens ==
    {<<"2","0","2","3","0","4","1","5">>, <<"2","0","2","3">>, <<"2","0","2","3","0">>,
     <<"2","0","2","3","0","4">>, <<"2","0","2","3","0","4","1">>,
     <<"2","0","2","3","0","4","1","5","0">>, <<"2","0","2","3","1","3","4","5">>,
     <<"2","0","2","3","0","2","3","0">>, <<"1","9","9","9">>, <<"2","0","5","1">>,
     <<"2","0","0","0">>, <<"2","0","5","0">>, <<"1","9","9","9","1","2","3","1">>,
     <<"2","0","5","1","0","1","0","1">>, <<"2","0","0","0","0","1","0","1">>,
     <<"2","0","5","0","1","2","3","1">>}

ZoneDigits == {<<"9">>, <<"1","0">>}

\* The directory above the file: none or a year
YearDirs ==
    {<<>>, <<"/","2","0","2","1">>, <<"/","2","0","0","0">>, <<"/","2","0","5","0">>,
     <<"/","2","0","5","1">>, <<"/","1","9","9","9">>}

DateUrls ==
    {PATH_S3 \o dir \o <<"/","x">> \o TifSuffix : dir \in YearDirs}
    \cup {PATH_S3 \o dir \o <<"/","x">> \o UtmMarker \o zone \o <<"_">> \o token \o TifSuffix :
             dir \in YearDirs, zone \in ZoneDigits, token \in DateTokens}

\* The cache entries a URL may have: made from metadata with a CRS, made
\* from a raster without one, and unreadable
CallEntries ==
    {EntryOf(geotiff_extract_metadata(<<>>, state), TRUE) : state \in RemoteStates}

\* The lookups a call may be given: no entry for the URL, or one of the entries
CallLookups(url) == {EmptyLookup} \cup {[key \in {fix_url(url)} |-> e] : e \in CallEntries}

InitCall ==
    /\ csv = NoStore
    /\ collection_json = [d \in Dirs |-> <<RootLink>>]
    /\ extent_json = [d \in Dirs |-> temporal_extent_of(times_of(parsed_times(<<UrlDated>>)))]
    /\ item_json = [d \in Dirs |-> {}]
    /\ runs = 0
    /\ NoRun
    /\ call_url \in DateUrls
    /\ derived = NotCalled
    /\ derived_again = NotCalled
    /\ validation_csv = NoFile
    /\ urls_invalid_items = NoFile
    /\ urls_access_checks = NoFile

ProcessItemCall ==
    /\ derived = NotCalled
    /\ \E lookup \in CallLookups(call_url), remote_state \in {"down", "cog"} :
          derived' = process_item(call_url, lookup, remote_state)
    /\ UNCHANGED <<persisted, tool_files, run_inputs, cache_locals, pc, runs, repeat,
                   ext_tasks, results_lookup, collection, item_tasks, results, rc, call_url,
                   derived_again>>

\* Another call on the same URL, by item_create.py or by item_reprocess.py,
\* with the lookup and the remote file of its own run
ProcessItemAgain ==
    /\ derived # NotCalled
    /\ derived_again = NotCalled
    /\ \E lookup \in CallLookups(call_url), remote_state \in {"down", "cog"} :
          \/ derived_again' = process_item(call_url, lookup, remote_state)
          \/ derived_again' = process_item_reprocess(call_url, lookup, remote_state)
    /\ UNCHANGED <<persisted, tool_files, run_inputs, cache_locals, pc, runs, repeat,
                   ext_tasks, results_lookup, collection, item_tasks, results, rc, call_url,
                   derived>>

NextCall == ProcessItemCall \/ ProcessItemAgain

SpecCall == InitCall /\ [][NextCall]_vars

(***************************************************************************)
(* Runs of item_create.py in every mode, on a store that an earlier run    *)
(* may have written from a URL list with a raw URL                         *)
(***************************************************************************)
AnyMode == [test \in BOOLEAN |-> Modes]

\* The URL lists of these runs: the well-formed UrlAB and a URL whose item
\* cannot be made, or the asset just below the prefix
ModeUrlLists == SeqsOf({UrlAB, UrlBadDate}, 0, MaxLen) \cup {<<UrlX>>}

StartRunAnyMode == StartRunWith(AnyMode, ModeUrlLists)

\* The store after a run that extracted the raw form of UrlAB
RawStores ==
    {to_csv(concat_frames(EmptyFrame, <<geotiff_extract_metadata(UrlABOneSlash, state)>>)) :
        state \in {"down", "cog"}}

InitModes ==
    /\ csv \in {NoStore} \cup RawStores
    /\ collection_json = [d \in Dirs |-> <<RootLink>>]
    /\ extent_json = [d \in Dirs |-> temporal_extent_of(times_of(parsed_times(<<UrlDated>>)))]
    /\ item_json = [d \in Dirs |-> {}]
    /\ runs = 0
    /\ NoRun
    /\ call_url = <<>>
    /\ derived = NotCalled
    /\ derived_again = NotCalled
    /\ validation_csv = NoFile
    /\ urls_invalid_items = NoFile
    /\ urls_access_checks = NoFile

NextModes ==
    \/ StartRunAnyMode
    \/ StartNoUrlFile
    \/ RepeatRun
    \/ \E i \in 1..MaxLen : ExtractStart(i)
    \/ \E i \in 1..MaxLen : ExtractFinish(i)
    \/ MergePersist
    \/ CrashInPersist
    \/ \E i \in 1..MaxLen : ItemStart(i)
    \/ \E i \in 1..MaxLen : ItemFinish(i)
    \/ CollectResults
    \/ CollectRaise
    \/ JoinAfterRaise
    \/ LinkMergeSave
    \/ Exit

SpecModes == InitModes /\ [][NextModes]_vars

(***************************************************************************)
(* The tools that find the invalid items and make them again: runs of      *)
(* item_extract_invalid.py and reprocess_invalid_items.py on an output     *)
(* directory that a run of item_create.py filled and item_validate.py read *)
(***************************************************************************)
ToolUrls == {UrlAB, UrlADashB, UrlEF}

\* The URL lists of the run of item_create that came before
ToolLists ==
    {l \in SeqsOf(ToolUrls, 1, MaxLen) : \A i, j \in DOMAIN l : l[i] = l[j] => i = j}

\* What a remote read of a URL finds when the file is there
ReadableState(url) == CHOOSE state \in RemoteStatesOf(url) : state # "down"

\* The store that run wrote (item_create.py lines 175-186)
StoreOf(listed) ==
    to_csv(concat_frames(EmptyFrame,
                         new_results_of(listed, [u \in KnownUrls |-> ReadableState(u)])))

\* The item records that run wrote, one after the other (item_create.py
\* lines 120-121)
RECURSIVE written_items(_, _, _)
written_items(urls, lookup, files) ==
    IF urls = <<>> THEN files
    ELSE LET out == process_item(Head(urls), lookup, ReadableState(Head(urls)))
         IN  written_items(Tail(urls), lookup,
                           IF out.kind = "item" THEN save_item(files, out.item) ELSE files)

ItemsOf(listed) == written_items(listed, build_lookup(ReadStore(StoreOf(listed))), {})

\* The links that run saved (item_create.py lines 293-317)
LinksOf(listed) ==
    merge_links(<<RootLink>>, [i \in DOMAIN listed |-> url_to_item_id(listed[i])])

\* item_validate.py lines 157-158: the item files matching *-*.json
validated_ids(files) == {f.id : f \in {g \in files : "-" \in Range(g.id)}}

\* item_validate.py lines 192-204: one row per item file, in the order of
\* glob, each valid or not
ValidationFiles(files) ==
    {[exists |-> TRUE, rows |-> rows] :
        rows \in {r \in SeqsOf([item_id : validated_ids(files), json_valid : BOOLEAN],
                               Cardinality(validated_ids(files)),
                               Cardinality(validated_ids(files))) :
                     \A i, j \in DOMAIN r : r[i].item_id = r[j].item_id => i = j}}

InitTools ==
    /\ \E listed \in ToolLists :
          /\ csv = StoreOf(listed)
          /\ collection_json = [d \in Dirs |-> IF d = get_output_dir(FALSE)
                                                THEN LinksOf(listed) ELSE <<RootLink>>]
          /\ item_json = [d \in Dirs |-> IF d = get_output_dir(FALSE)
                                          THEN ItemsOf(listed) ELSE {}]
          /\ validation_csv \in ValidationFiles(ItemsOf(listed))
                                  \cup ValidationFiles(ItemsOf(SliceTo(listed, 1)))
                                  \cup {NoFile}
    /\ extent_json = [d \in Dirs |-> temporal_extent_of(times_of(parsed_times(<<UrlDated>>)))]
    /\ urls_invalid_items = NoFile
    /\ urls_access_checks = NoFile
    /\ runs = 0
    /\ NoRun
    /\ call_url = <<>>
    /\ derived = NotCalled
    /\ derived_again = NotCalled

NextTools ==
    \/ ItemValidate
    \/ ExtractInvalid
    \/ StartReprocessInvalid
    \/ \E i \in 1..MaxLen : ItemStart(i)
    \/ \E i \in 1..MaxLen : ItemFinish(i)
    \/ CollectResults
    \/ ReprocessSummary
    \/ Exit

SpecTools == InitTools /\ [][NextTools]_vars

(***************************************************************************)
(* collection_create.py and item_create.py on lists of an asset with a     *)
(* date in its name and an asset without one                               *)
(***************************************************************************)
ExtentLists == SeqsOf({UrlAB, UrlDated}, 1, MaxLen)

StartRunExtent == StartRunWith(ModesTried, ExtentLists)

NextExtent ==
    \/ CollectionCreate
    \/ StartRunExtent
    \/ StartNoUrlFile
    \/ RepeatRun
    \/ \E i \in 1..MaxLen : ExtractStart(i)
    \/ \E i \in 1..MaxLen : ExtractFinish(i)
    \/ MergePersist
    \/ CrashInPersist
    \/ \E i \in 1..MaxLen : ItemStart(i)
    \/ \E i \in 1..MaxLen : ItemFinish(i)
    \/ CollectResults
    \/ LinkMergeSave
    \/ Exit

SpecExtent == InitModes /\ [][NextExtent]_vars

(***************************************************************************)
(* urls_check_access.py                                                    *)
(***************************************************************************)
\* --workers (default 16)
DefaultAccessWorkers == 16

\* The status codes of the HEAD request that are told apart
StatusCodes == {200, 403}

\* stac_utils.py lines 117-138
check_url_accessible(url, status_code) ==
    [url |-> url, status_code |-> status_code, accessible |-> (status_code = 200)]

\* Lines 55-65: the cached rows, none with --recheck or without the file
df_cached_of(cache, recheck) == IF ~recheck /\ cache.exists THEN cache.rows ELSE <<>>

\* Line 69
access_to_check_of(all_urls, cached) ==
    FilterSeq(all_urls, {u \in Range(all_urls) : u \notin {cached[i].url : i \in DOMAIN cached}})

\* Lines 75-80: the status when there is nothing to check
status_from_cache(cached) ==
    IF \E i \in DOMAIN cached : ~cached[i].accessible THEN 1 ELSE 0

\* Lines 101-111: the status after a check; main() returns without sys.exit
\* when no new URL is inaccessible
status_from_new(df_new) ==
    IF \E i \in DOMAIN df_new : ~df_new[i].accessible THEN 1 ELSE 0

\* main() of urls_check_access.py (lines 29-111); urls_to_check holds the URLs
\* requested
UrlsCheckAccess(lists) ==
    /\ pc = "idle"
    /\ runs < MaxRuns
    /\ runs' = runs + 1
    /\ \E recheck \in BOOLEAN, file \in BOOLEAN, lines \in lists :
          LET all_urls  == [i \in DOMAIN lines |-> fix_url(lines[i])]
              df_cached == df_cached_of(urls_access_checks, recheck)
              todo      == access_to_check_of(all_urls, df_cached)
          IN  /\ args' = [script |-> "urls_check_access", test |-> FALSE,
                          mode |-> IF recheck THEN "recheck" ELSE "none",
                          workers |-> DefaultAccessWorkers]
              /\ urls_file_exists' = file
              /\ IF ~file
                 THEN \* line 50: open() raises, traceback, exit status 1
                      /\ rc' = 1
                      /\ urls_to_check' = <<>>
                      /\ urls_access_checks' = urls_access_checks
                 ELSE IF todo = <<>>
                 THEN /\ rc' = status_from_cache(df_cached)
                      /\ urls_to_check' = <<>>
                      /\ urls_access_checks' = urls_access_checks
                 ELSE \E codes \in [DOMAIN todo -> StatusCodes] :
                         LET df_new == [i \in DOMAIN todo |->
                                           check_url_accessible(todo[i], codes[i])]
                         IN  /\ urls_access_checks' = [exists |-> TRUE,
                                                       rows |-> df_cached \o df_new]
                             /\ urls_to_check' = todo
                             /\ rc' = status_from_new(df_new)
    /\ pc' = "done"
    /\ UNCHANGED <<single_call, persisted, validation_csv, urls_invalid_items, cache_locals,
                   repeat, remote, store0, links0, ext_tasks, results_lookup, collection,
                   item_tasks, results>>

\* The lines of the URL file: well-formed, with one slash after the scheme
AccessLists == SeqsOf({UrlAB, UrlABOneSlash, UrlEF}, 0, MaxLen)

\* The access cache that earlier runs left: absent, or one row per URL checked
AccessCaches ==
    {NoFile} \cup
    {[exists |-> TRUE, rows |-> rows] :
        rows \in {r \in SeqsOf({check_url_accessible(u, c) : u \in {UrlAB, UrlEF}, c \in StatusCodes},
                                1, MaxLen) :
                     \A i, j \in DOMAIN r : r[i].url = r[j].url => i = j}}

InitAccess ==
    /\ csv = NoStore
    /\ collection_json = [d \in Dirs |-> <<RootLink>>]
    /\ extent_json = [d \in Dirs |-> temporal_extent_of(times_of(parsed_times(<<UrlDated>>)))]
    /\ item_json = [d \in Dirs |-> {}]
    /\ runs = 0
    /\ NoRun
    /\ call_url = <<>>
    /\ derived = NotCalled
    /\ derived_again = NotCalled
    /\ validation_csv = NoFile
    /\ urls_invalid_items = NoFile
    /\ urls_access_checks \in AccessCaches

NextAccess ==
    \/ UrlsCheckAccess(AccessLists)
    \/ Exit

SpecAccess == InitAccess /\ [][NextAccess]_vars

(***************************************************************************)
(* Properties                                                              *)
(***************************************************************************)
\* The run has read the URL list and is past the cache merge
PostMerge ==
    /\ args.script = "item_create"
    /\ pc \in {"items", "join", "link", "done"}
    /\ rc # 1

\* The run has classified the requested URLs
Classified ==
    /\ args.script = "item_create"
    /\ pc \in {"extract", "items", "join", "link", "done", "crashed"}
    /\ rc # 1

Requested == Range(urls_to_check)

Extracted == Range(urls_to_validate)

NoDuplicates(s) == \A i, j \in DOMAIN s : s[i] = s[j] => i = j

SpatialNull(row) ==
    /\ row.epsg = NULL
    /\ row.height = NULL
    /\ row.width = NULL
    /\ row.transform = NULL
    /\ row.bounds = NULL

SpatialAllPresent(row) ==
    /\ row.epsg # NULL
    /\ row.height # NULL
    /\ row.width # NULL
    /\ row.transform # NULL
    /\ row.bounds # NULL

\* C1: a second run of the same invocation (same non-test mode, same URL list,
\* same remote state) ends with the cache store and the links of the collection
\* exactly as the first run left them.
C1_Idempotent ==
    (pc = "done" /\ repeat = "second")
        => /\ csv = store0
           /\ collection_json[path_local] = links0

\* C1 witness: a second run has ended, after a first run that extracted
\* metadata and added item links.
C1_Witness ==
    /\ pc = "done"
    /\ repeat = "second"
    /\ csv.exists
    /\ Len(csv.rows) >= 2
    /\ ItemLinks(collection_json[path_local]) # <<>>

\* C2: after the link merge of a run, no two item links of the saved
\* collection share the same target href.
C2_NoDuplicateLinks ==
    (pc = "done" /\ rc = 0) => NoDuplicates(ItemLinks(collection_json[path_local]))

\* C3: after the cache merge, the store holds at most one row per URL whenever
\* the store read at the start of the run did.
C3_OneRowPerUrl ==
    (PostMerge /\ OneRowPerUrl(store0.rows)) => OneRowPerUrl(csv.rows)

\* The claimed test of C4: a row exists and it is unreadable or has every
\* metadata field
UpToDateAllFields(store, url) ==
    \E i \in DOMAIN store.rows :
        /\ store.rows[i].url = url
        /\ (~store.rows[i].is_geotiff \/ (store.spatial /\ SpatialAllPresent(store.rows[i])))

\* The test the code makes: a row exists and it is unreadable or has a transform
UpToDateTransform(store, url) ==
    \E i \in DOMAIN store.rows :
        /\ store.rows[i].url = url
        /\ (~store.rows[i].is_geotiff \/ (store.spatial /\ store.rows[i].transform # NULL))

\* C4 as claimed: a requested URL is not extracted iff it has a row that is
\* unreadable or has all of epsg, height, width, transform and bounds.
C4_UpToDateIffAllFields ==
    Classified => \A u \in Requested : (u \notin Extracted) <=> UpToDateAllFields(store0, u)

\* C4 amended: a requested URL is not extracted iff it has a row that is
\* unreadable or has its transform; every other requested URL is extracted.
C4_UpToDateIffTransform ==
    Classified => \A u \in Requested : (u \notin Extracted) <=> UpToDateTransform(store0, u)

\* C4 witness: a requested URL with a readable row that has a transform but no
\* epsg is left alone, while another requested URL is extracted.
C4_Witness ==
    /\ Classified
    /\ \E u \in Requested :
          /\ u \notin Extracted
          /\ \E i \in DOMAIN store0.rows :
                /\ store0.rows[i].url = u
                /\ store0.rows[i].is_geotiff
                /\ store0.rows[i].epsg = NULL
                /\ store0.rows[i].transform # NULL
    /\ Extracted # {}

\* A row written before the upgrade: readable, no spatial fields
PreUpgrade(store, url) ==
    \E i \in DOMAIN store.rows :
        /\ store.rows[i].url = url
        /\ store.rows[i].is_geotiff
        /\ (~store.spatial \/ SpatialNull(store.rows[i]))

\* C5: a requested URL with a pre-upgrade row whose extraction succeeds has,
\* after the run, exactly one row, and that row carries the extracted fields.
C5_UpgradeOneRow ==
    PostMerge =>
        \A u \in Requested :
            (PreUpgrade(store0, u) /\ remote[u] # "down") =>
                /\ Cardinality(RowsOfUrl(csv.rows, u)) = 1
                /\ csv.spatial
                /\ \A j \in RowsOfUrl(csv.rows, u) :
                      /\ csv.rows[j].is_geotiff
                      /\ csv.rows[j].transform = "transform"
                      /\ csv.rows[j].height = "height"
                      /\ csv.rows[j].width = "width"
                      /\ csv.rows[j].bounds = "bounds"
                      /\ csv.rows[j].epsg = (IF remote[u] = "nocrs" THEN NULL ELSE "3005")

\* C6: every row of a URL that is not extracted in the run is in the store
\* after the merge, as many times and with the same values, and every URL that
\* had a row still has one.
C6_Frame ==
    PostMerge =>
        /\ \A i \in DOMAIN store0.rows :
              store0.rows[i].url \notin Extracted =>
                  Cardinality({j \in DOMAIN csv.rows : csv.rows[j] = store0.rows[i]})
                      = Cardinality({j \in DOMAIN store0.rows : store0.rows[j] = store0.rows[i]})
        /\ UrlsOf(store0.rows) \subseteq UrlsOf(csv.rows)

\* C6 witness: the merge has written a store that keeps a row it did not
\* extract and replaces a row it did.
C6_Witness ==
    /\ PostMerge
    /\ csv # store0
    /\ \E i \in DOMAIN store0.rows : store0.rows[i].url \notin Extracted
    /\ \E i \in DOMAIN store0.rows : store0.rows[i].url \in Extracted

\* C7: a URL whose row is unreadable is not passed to extraction, and its rows
\* are the same after the run, whatever the columns of the store.
C7_UnreadableTerminal ==
    Classified =>
        \A i \in DOMAIN store0.rows :
            ~store0.rows[i].is_geotiff =>
                /\ store0.rows[i].url \notin Extracted
                /\ PostMerge =>
                      {csv.rows[j] : j \in RowsOfUrl(csv.rows, store0.rows[i].url)}
                          = {store0.rows[i]}

\* C7 witness: a run has ended that requested a URL with an unreadable row,
\* readable remotely by now, and extracted another URL.
C7_Witness ==
    /\ pc = "done"
    /\ rc = 0
    /\ csv # store0
    /\ \E i \in DOMAIN store0.rows :
          /\ ~store0.rows[i].is_geotiff
          /\ store0.rows[i].url \in Requested
          /\ remote[store0.rows[i].url] # "down"

Creatable(url) ==
    /\ fix_url(url) \in DOMAIN results_lookup
    /\ results_lookup[fix_url(url)].is_geotiff
    /\ process_item(url, results_lookup, remote[url]).kind = "item"

\* C9: when a run of item_create ends, every requested URL whose item can be made has its
\* item record in the output directory and its link in the saved collection,
\* whatever happened to the other URLs.
C9_OtherItemsCreated ==
    (args.script = "item_create" /\ pc = "done" /\ rc = 0) =>
        \A u \in Requested :
            Creatable(u) =>
                /\ \E f \in item_json[path_local] : f.id = url_to_item_id(u)
                /\ item_href_of(url_to_item_id(u)) \in ItemHrefs(collection_json[path_local])

\* C10: in the extraction stage no more extraction calls are in flight than
\* the --workers setting, and no URL is extracted twice.
C10_ExtractionBounded ==
    pc = "extract" =>
        /\ Cardinality(Running(ext_tasks)) <= args.workers
        /\ NoDuplicates(urls_to_validate)

\* A step of a task of one of the pools
WorkerStep ==
    /\ pc' = pc
    /\ ext_tasks' # ext_tasks \/ item_tasks' # item_tasks

\* C11: the cache store changes only in a step of the coordinating sequence
\* that leaves the extraction stage with every extraction task done; the
\* stage is entered only when a run starts, so a run writes the store at most
\* once; no step of a worker task changes the store or the links of the
\* collection.
C11_SingleWriter ==
    [][/\ (csv' # csv) =>
            /\ pc = "extract"
            /\ \A i \in DOMAIN ext_tasks : ext_tasks[i] = "done"
            /\ pc' \in {"items", "crashed"}
       /\ (pc' = "extract" /\ pc # "extract") => runs' = runs + 1
       /\ WorkerStep => UNCHANGED <<csv, collection, collection_json>>]_vars

\* C11 witness: the store has been written after a pool of two extraction
\* tasks, and the item stage has begun.
C11_Witness ==
    /\ args.script = "item_create"
    /\ pc = "items"
    /\ csv # store0
    /\ Len(ext_tasks) >= 2
    /\ \A i \in DOMAIN ext_tasks : ext_tasks[i] = "done"

\* The store the run set out to write
IntendedStore == to_csv(concat_frames(df_existing, new_results_of(urls_to_validate, remote)))

\* C12: when the process stops during the write of the cache store, the store
\* left for the next run is the complete store from before the write or the
\* complete new one.
C12_AtomicPersist ==
    pc = "crashed" => csv \in {store0, IntendedStore}

CacheLoaders == {"item_create", "item_reprocess"}

\* C13: a run of a script that loads the cache, started when the store exists
\* and cannot be read, ends at once with exit status 1: no extraction task
\* and no item task is created, the store and the collection files are as
\* before, and no item record is added or changed.
C13_ReadFailureStops ==
    [][(/\ runs' = runs + 1
        /\ csv.exists
        /\ ~csv.readable
        /\ args'.script \in CacheLoaders)
         => /\ pc' = "done"
            /\ rc' = 1
            /\ csv' = csv
            /\ collection_json' = collection_json
            /\ \A d \in Dirs : item_json'[d] \subseteq item_json[d]
            /\ ext_tasks' = <<>>
            /\ item_tasks' = <<>>]_vars

\* C13 witness: an item_create run with a URL list has ended on a store it
\* could not read.
C13_Witness ==
    /\ args.script = "item_create"
    /\ pc = "done"
    /\ rc = 1
    /\ urls_file_exists
    /\ urls_to_check # <<>>
    /\ store0.exists
    /\ ~store0.readable

\* C14: a run of a script that loads the cache, started with the URL list
\* present and the store absent, does not end with an error on that account,
\* and in item_create every requested URL is sent to extraction.
C14_AbsentStoreNotAnError ==
    (/\ args.script \in CacheLoaders
     /\ pc # "idle"
     /\ urls_file_exists
     /\ ~store0.exists)
      => /\ rc # 1
         /\ args.script = "item_create" => urls_to_validate = urls_to_check

\* C15: a run of item_create or collection_create that finds its URL list
\* file absent ends with a non-zero exit status and leaves every persisted
\* record (cache store, collection files, item records) as it was.
C15_NoUrlFileNoChange ==
    [][(/\ runs' = runs + 1
        /\ ~urls_file_exists'
        /\ args'.script \in {"item_create", "collection_create"})
         => /\ pc' = "done"
            /\ rc' \notin {-1, 0}
            /\ persisted' = persisted]_vars

\* A fatal condition of the run: no URL list, a store that cannot be read, or
\* an exception that ended the item stage as a whole
Fatal ==
    \/ ~urls_file_exists
    \/ args.script \in CacheLoaders /\ store0.exists /\ ~store0.readable
    \/ \E i \in DOMAIN item_tasks : item_tasks[i] = "raise"

\* Every task of the item stage returned, an item or None
StageReturned ==
    /\ args.script \in CacheLoaders
    /\ args.script = "item_reprocess" => store0.exists
    /\ urls_file_exists
    /\ Len(item_tasks) = Len(urls_to_check)
    /\ \A i \in DOMAIN item_tasks : item_tasks[i] \in Finished
    /\ results = collect(item_tasks, urls_to_check)

\* C16: a run in which a fatal condition occurred ends with a non-zero exit
\* status, and a run whose item stage returned for every URL, with or without
\* per-item failures, ends with status zero.
C16_ExitStatus ==
    pc = "done" =>
        /\ Fatal => rc # 0
        /\ (StageReturned /\ ~Fatal) => rc = 0

\* Whether the cache record of a URL is absent or unreadable
NoReadableRecord(url) ==
    \/ fix_url(url) \notin DOMAIN results_lookup
    \/ ~results_lookup[fix_url(url)].is_geotiff

\* The item hrefs that the link merge of this run adds
AddedHrefs == ItemHrefs(merge_links(collection, results)) \ ItemHrefs(collection)

\* C17: when the item stage of a run has ended, no task of a URL without a
\* readable cache record has written an item, and the link merge of
\* item_create adds no link to the item id of such a URL.
C17_UnreadableNoItem ==
    (pc = "link") =>
        \A i \in DOMAIN urls_to_check :
            NoReadableRecord(urls_to_check[i]) =>
                /\ item_tasks[i] # "item"
                /\ args.script = "item_create" =>
                      item_href_of(url_to_item_id(urls_to_check[i])) \notin AddedHrefs

\* Classified up-to-date and readable: not sent to extraction, with a readable row
CacheHit(url) ==
    /\ url \notin Extracted
    /\ \E i \in DOMAIN store0.rows : store0.rows[i].url = url /\ store0.rows[i].is_geotiff

\* Lines 61-113: whether process_item reaches rio_stac.create_stac_item, the
\* remote read, for a URL
remote_read_in_synthesis(url, lookup) ==
    /\ fix_url(url) \in DOMAIN lookup
    /\ lookup[fix_url(url)].is_geotiff
    /\ item_time_of(url)[1].kind # "raise"
    /\ lookup[fix_url(url)].epsg = NULL

\* C18: a requested URL classified as up-to-date and readable is not sent to
\* extraction, and the task that makes its item does no remote read.
C18_HitsNotRetouched ==
    Classified =>
        \A i \in DOMAIN item_tasks :
            (CacheHit(urls_to_check[i]) /\ item_tasks[i] \in Finished)
                => ~remote_read_in_synthesis(urls_to_check[i], results_lookup)

\* Whether the derivation of a URL ends without a parsed date
NoDateParsed(url) ==
    \/ date_extract_from_path(url) = <<>>
    \/ datetime_parse_item(date_extract_from_path(url)).kind # "datetime"

UtmExample == UtmMarker \o <<"9","_","2","0","2","3","0","4","1","5">>

\* C19: every item that process_item returns has a timestamp; it carries the
\* datetime_unknown marker exactly when no date was parsed from its URL, and
\* then its timestamp is 2000-01-01; a URL containing _utm9_20230415 gives
\* 2023-04-15 without the marker.
C19_TimestampAndMarker ==
    derived.kind = "item" =>
        /\ derived.item.datetime.kind = "datetime"
        /\ derived.item.datetime_unknown <=> NoDateParsed(call_url)
        /\ derived.item.datetime_unknown => derived.item.datetime = PlaceholderDateTime
        /\ Occurrences(call_url, UtmExample) # {} =>
              /\ derived.item.datetime = DateTime(2023, 4, 15)
              /\ ~derived.item.datetime_unknown

\* The timestamp C20 states for a URL: the zone-marker token when it has 8
\* digits and is a calendar date or has 4 digits, with its year in range;
\* otherwise the year directory when its year is in range; otherwise the
\* placeholder
ClaimedTime(url) ==
    LET token == UtmSearch(url)
        fb    == YearDirSearch(url)
    IN  IF /\ Len(token) = 8
           /\ YearInRange(ToInt(SubSeq(token, 1, 4)))
           /\ StrptimeYmd(token).kind = "datetime"
        THEN StrptimeYmd(token)
        ELSE IF Len(token) = 4 /\ YearInRange(ToInt(token)) THEN DateTime(ToInt(token), 1, 1)
        ELSE IF fb # <<>> /\ YearInRange(ToInt(fb)) THEN DateTime(ToInt(fb), 1, 1)
        ELSE PlaceholderDateTime

\* C20: for every URL the derivation of the timestamp raises nothing and
\* gives the date of an 8-digit token, 1 January of a 4-digit token, and for
\* a token of another length or one that is no calendar date the result of
\* the next pattern or the placeholder.
C20_ParseNeverRaises ==
    derived # NotCalled =>
        /\ item_time_of(call_url)[1].kind # "raise"
        /\ item_time_of(call_url)[1] = ClaimedTime(call_url)

\* The zone-marker token of a URL and the year it begins with (0: no token)
ZoneToken(url) == UtmSearch(url)

ZoneTokenYear(url) == IF ZoneToken(url) = <<>> THEN 0 ELSE ToInt(SubSeq(ZoneToken(url), 1, 4))

\* The four characters of the directory just below the prefix, when they are
\* digits and a separator follows, and their year (0: no such directory)
YearDirOf(url) ==
    IF AllDigits(url, Len(PATH_S3) + 2, 4) /\ CharAt(url, Len(PATH_S3) + 6) = "/"
    THEN SubSeq(url, Len(PATH_S3) + 2, Len(PATH_S3) + 5) ELSE <<>>

YearDirYear(url) == IF YearDirOf(url) = <<>> THEN 0 ELSE ToInt(YearDirOf(url))

\* C21: a zone-marker token whose year is in [2000, 2050] is the date string
\* of the URL and sets the timestamp of its item, also when a year directory
\* is present; the year directory is used only when there is no such token;
\* the placeholder and its marker are used exactly when neither gives a date.
C21_FirstMatchWins ==
    derived # NotCalled =>
        LET token_ok == YearInRange(ZoneTokenYear(call_url))
            dir_ok   == YearInRange(YearDirYear(call_url))
            date_str == date_extract_from_path(call_url)
        IN  /\ token_ok => date_str = ZoneToken(call_url)
            /\ (~token_ok /\ dir_ok) => date_str = YearDirOf(call_url)
            /\ (date_str = <<>>) <=> (~token_ok /\ ~dir_ok)
            /\ derived.kind = "item" =>
                  /\ token_ok =>
                        /\ derived.item.datetime = datetime_parse_item(ZoneToken(call_url))
                        /\ ~derived.item.datetime_unknown
                  /\ (~token_ok /\ dir_ok) =>
                        /\ derived.item.datetime = DateTime(YearDirYear(call_url), 1, 1)
                        /\ ~derived.item.datetime_unknown
                  /\ derived.item.datetime_unknown <=> (~token_ok /\ ~dir_ok)
                  /\ derived.item.datetime_unknown =>
                        derived.item.datetime = PlaceholderDateTime

\* C21 witness: an item made from a URL with a year directory and a
\* zone-marker token of another year, both in range, has the year of the token.
C21_Witness ==
    /\ derived.kind = "item"
    /\ YearInRange(ZoneTokenYear(call_url))
    /\ YearInRange(YearDirYear(call_url))
    /\ ZoneTokenYear(call_url) # YearDirYear(call_url)
    /\ derived.item.datetime.kind = "datetime"
    /\ derived.item.datetime.y = ZoneTokenYear(call_url)

OutsideYears == {MinYear - 1, MaxYear + 1}

EdgeYears == {MinYear, MaxYear}

\* C22 as claimed: a zone-marker token or a year directory of year 1999 or
\* 2051 is never the date of the URL, and every URL that has one gets the
\* placeholder and the marker; a token of year 2000 or 2050 is accepted.
C22_OutsideGivesPlaceholder ==
    derived # NotCalled =>
        LET ty       == ZoneTokenYear(call_url)
            dy       == YearDirYear(call_url)
            date_str == date_extract_from_path(call_url)
        IN  /\ ty \in OutsideYears => date_str # ZoneToken(call_url)
            /\ dy \in OutsideYears => date_str # YearDirOf(call_url)
            /\ (ty \in OutsideYears \/ dy \in OutsideYears) =>
                  item_time_of(call_url) = <<PlaceholderDateTime, TRUE>>
            /\ ty \in EdgeYears => date_str = ZoneToken(call_url)

\* C22 amended: a zone-marker token or a year directory of year 1999 or 2051
\* is never the date of the URL; the URL then gets the date of the other
\* pattern when that one gives a year in [2000, 2050], and the placeholder
\* with the marker otherwise; a token or a directory of year 2000 or 2050 is
\* accepted.
C22_YearBoundary ==
    derived # NotCalled =>
        LET ty       == ZoneTokenYear(call_url)
            dy       == YearDirYear(call_url)
            date_str == date_extract_from_path(call_url)
        IN  /\ ty \in OutsideYears => date_str # ZoneToken(call_url)
            /\ dy \in OutsideYears => date_str # YearDirOf(call_url)
            /\ ((ty \in OutsideYears \/ dy \in OutsideYears)
                    /\ ty \notin MinYear..MaxYear /\ dy \notin MinYear..MaxYear) =>
                  /\ item_time_of(call_url) = <<PlaceholderDateTime, TRUE>>
                  /\ derived.kind = "item" =>
                        /\ derived.item.datetime = PlaceholderDateTime
                        /\ derived.item.datetime_unknown
            /\ ty \in EdgeYears =>
                  /\ date_str = ZoneToken(call_url)
                  /\ derived.kind = "item" =>
                        /\ derived.item.datetime.kind = "datetime"
                        /\ derived.item.datetime.y = ty
                        /\ ~derived.item.datetime_unknown
            /\ (dy \in EdgeYears /\ ty \notin MinYear..MaxYear) =>
                  /\ date_str = YearDirOf(call_url)
                  /\ derived.kind = "item" =>
                        /\ derived.item.datetime = DateTime(dy, 1, 1)
                        /\ ~derived.item.datetime_unknown

\* C22 witness: an item made from a URL whose zone-marker token has the year
\* 2051 and whose year directory is 1999 has the placeholder and the marker.
C22_Witness ==
    /\ derived.kind = "item"
    /\ ZoneTokenYear(call_url) = MaxYear + 1
    /\ YearDirYear(call_url) = MinYear - 1
    /\ derived.item.datetime = PlaceholderDateTime
    /\ derived.item.datetime_unknown

\* A canonical URL under the fixed prefix
CanonicalUnderPrefix(url) ==
    /\ fix_url(url) = url
    /\ StartsWith(url, PATH_S3 \o <<"/">>)

\* C23: two distinct canonical URLs under the prefix that a run is given have
\* distinct item ids, so that no item record file and no link target of the
\* run stands for two assets.
C23_DistinctIds ==
    \A i, j \in DOMAIN urls_to_check :
        (/\ CanonicalUnderPrefix(urls_to_check[i])
         /\ CanonicalUnderPrefix(urls_to_check[j])
         /\ urls_to_check[i] # urls_to_check[j])
          => /\ url_to_item_id(urls_to_check[i]) # url_to_item_id(urls_to_check[j])
             /\ item_href_of(url_to_item_id(urls_to_check[i]))
                   # item_href_of(url_to_item_id(urls_to_check[j]))

\* The rows of the validation file that are invalid, and the source URLs of
\* their item records
InvalidIds == {row.item_id : row \in Range(invalid_items_of(validation_csv.rows))}

InvalidSources == {f.href : f \in {g \in item_json[get_output_dir(FALSE)] : g.id \in InvalidIds}}

\* C24: the URL made from the id of an item record is the URL the record was
\* made from, and the list that item_extract_invalid writes holds exactly
\* the source URLs of the invalid items.
C24_RoundTrip ==
    (args.script = "item_extract_invalid" /\ pc = "done" /\ rc = 0 /\ InvalidIds # {})
        => /\ \A u \in InvalidSources :
                 (CanonicalUnderPrefix(u) /\ EndsWith(u, TifSuffix))
                     => item_id_to_url(url_to_item_id(u)) = u
           /\ Range(urls_invalid_items.rows) = InvalidSources

\* C25: a URL that was normalized is left as it is by the normalization:
\* the keys of the lookup and the normalized input URLs of a run, for fix_url
\* and for the normalization of reprocess_invalid_items.
C25_NormalizeIdempotent ==
    /\ \A i \in DOMAIN urls_to_check :
          fix_url(fix_url(urls_to_check[i])) = fix_url(urls_to_check[i])
    /\ args.script = "reprocess_invalid_items" =>
          /\ \A key \in DOMAIN results_lookup : replace_https(key) = key
          /\ \A i \in DOMAIN urls_to_check :
                replace_https(replace_https(urls_to_check[i])) = replace_https(urls_to_check[i])

\* Whether row i of a store is up to date: unreadable, or with its metadata
UpToDateRow(store, i) ==
    \/ ~store.rows[i].is_geotiff
    \/ store.spatial /\ store.rows[i].transform # NULL

\* C26: a requested URL is not extracted when the store has an up-to-date row
\* of a URL with the same normal form, and after the merge the store holds no
\* two rows whose URLs have the same normal form.
C26_CanonicalKey ==
    Classified =>
        /\ \A u \in Requested :
              (\E i \in DOMAIN store0.rows :
                  /\ fix_url(store0.rows[i].url) = fix_url(u)
                  /\ UpToDateRow(store0, i))
                => u \notin Extracted
        /\ PostMerge =>
              \A i, j \in DOMAIN csv.rows :
                  fix_url(csv.rows[i].url) = fix_url(csv.rows[j].url) => i = j

\* C29: in a run of item_create that is not a test run without --incremental
\* and without --reprocess-invalid, no step removes an item link from the
\* collection.json of either directory, whatever the item tasks do.
C29_LinksOnlyGrow ==
    [][(/\ args'.script = "item_create"
        /\ ~(args'.test /\ args'.mode = "full"))
         => \A d \in Dirs :
                ItemHrefs(collection_json[d]) \subseteq ItemHrefs(collection_json'[d])]_vars

\* C29 witness: a test run with --incremental, in which an item task raised,
\* has saved a collection that had an item link before the run and has it still.
C29_Witness ==
    /\ args.script = "item_create"
    /\ args.test
    /\ args.mode = "incremental"
    /\ pc = "done"
    /\ rc = 0
    /\ \E i \in DOMAIN item_tasks : item_tasks[i] = "raise"
    /\ ItemHrefs(links0) # {}
    /\ ItemHrefs(links0) \subseteq ItemHrefs(collection_json[path_local])

\* The tasks of the run that wrote the item record of an id
WritersOf(item_id) ==
    {i \in DOMAIN item_tasks :
        item_tasks[i] = "item" /\ url_to_item_id(urls_to_check[i]) = item_id}

\* C27: in a completed run of item_create the item record of an item id was
\* written by one task only, and when the collection has been written no task
\* of the run is still to write an item record.
C27_ItemWrittenOnce ==
    (args.script = "item_create" /\ pc = "done" /\ rc = 0) =>
        /\ \A i \in DOMAIN item_tasks : Cardinality(WritersOf(url_to_item_id(urls_to_check[i]))) <= 1
        /\ \A i \in DOMAIN item_tasks : item_tasks[i] \notin {"pending", "running"}

\* C30: when a run of item_create has saved the collection, every item record
\* written by a task of the run has an item link in the saved collection whose
\* target is made from its id, also when another task of the run raised.
C30_WrittenItemsLinked ==
    (args.script = "item_create" /\ pc = "done" /\ rc = 0) =>
        \A i \in DOMAIN item_tasks :
            item_tasks[i] = "item" =>
                item_href_of(url_to_item_id(urls_to_check[i]))
                    \in ItemHrefs(collection_json[path_local])

\* C28: two calls on the same URL text, by item_create or item_reprocess and
\* with any cache entries and remote files, that both make an item give it
\* the same id, the same timestamp and the same inferred marker, which are
\* those derived from the URL; and when one call raises, the other makes no item.
C28_DeriveDeterministic ==
    /\ (derived.kind = "item" /\ derived_again.kind = "item") =>
          /\ derived.item.id = derived_again.item.id
          /\ derived.item.datetime = derived_again.item.datetime
          /\ derived.item.datetime_unknown = derived_again.item.datetime_unknown
          /\ derived.item.id = url_to_item_id(call_url)
          /\ derived.item.datetime = item_time_of(call_url)[1]
    /\ (derived.kind = "raise" /\ derived_again # NotCalled) => derived_again.kind # "item"
    /\ (derived_again.kind = "raise") => derived.kind # "item"

\* Two calls on a dated URL, one composing the item from the cache and one by
\* a remote read
C28_Witness ==
    /\ derived.kind = "item"
    /\ derived_again.kind = "item"
    /\ derived.item.read = "cache"
    /\ derived_again.item.read = "remote"
    /\ ~derived.item.datetime_unknown
    /\ derived.item.datetime.kind = "datetime"
    /\ derived_again.item.datetime = derived.item.datetime

\* C31: every item that a task of reprocess_invalid_items makes has the id
\* that url_to_item_id gives its URL, so that the record of that id in the
\* output directory is the one the task wrote by its remote read.
C31_SameItemId ==
    (args.script = "reprocess_invalid_items") =>
        \A i \in DOMAIN item_tasks :
            item_tasks[i] = "item" =>
                /\ invalid_item_id(urls_to_check[i]) = url_to_item_id(urls_to_check[i])
                /\ \E f \in item_json[path_local] :
                      f.id = url_to_item_id(urls_to_check[i]) /\ f.read = "remote"

\* C32: after load_validation_cache has returned, every requested URL has an
\* entry in the lookup under its normalized form and, when the run extracted
\* anything, a row in the persisted cache store.
C32_EveryRequestedCached ==
    PostMerge =>
        \A i \in DOMAIN urls_to_check :
            /\ fix_url(urls_to_check[i]) \in DOMAIN results_lookup
            /\ urls_to_validate # <<>> =>
                  /\ csv.exists
                  /\ \E k \in DOMAIN csv.rows : csv.rows[k].url = urls_to_check[i]

\* A run that extracted one requested URL and found another in the cache
C32_Witness ==
    /\ PostMerge
    /\ urls_to_validate # <<>>
    /\ \E i \in DOMAIN urls_to_check : urls_to_check[i] \notin Range(urls_to_validate)
    /\ \A i \in DOMAIN urls_to_check : fix_url(urls_to_check[i]) \in DOMAIN results_lookup

\* The ids of the items that the tasks of the run made
CreatedIds == {url_to_item_id(urls_to_check[i]) : i \in {j \in DOMAIN item_tasks : item_tasks[j] = "item"}}

\* C33: after a test run of item_create without --incremental and without
\* --reprocess-invalid the item links of the collection are exactly the links
\* to the items the run made, and the output directory holds no item record
\* but those of the run.
C33_CleanSlate ==
    (args.script = "item_create" /\ args.test /\ args.mode = "full" /\ pc = "done" /\ rc = 0) =>
        /\ ItemHrefs(collection_json[path_local]) = {item_href_of(id) : id \in CreatedIds}
        /\ \A f \in item_json[path_local] : f.id \in CreatedIds

RowIds(rows) == {rows[i].item_id : i \in DOMAIN rows}

OneRowPerId(rows) == \A i, j \in DOMAIN rows : rows[i].item_id = rows[j].item_id => i = j

\* C34: a run of item_validate with --incremental keeps every row of the
\* existing results where it was, adds rows only for item files whose id the
\* existing results do not hold, and leaves one row per item id.
C34_IncrementalFrame ==
    [][(pc = "idle" /\ args'.script = "item_validate" /\ args'.mode = "incremental") =>
          LET old == validation_csv.rows
              new == validation_csv'.rows
          IN  /\ Len(old) <= Len(new)
              /\ SubSeq(new, 1, Len(old)) = old
              /\ \A i \in (Len(old) + 1)..Len(new) :
                    /\ new[i].item_id \notin RowIds(old)
                    /\ new[i].item_id \in glob_item_ids(item_json[get_output_dir(FALSE)])
              /\ RowIds(new) \ RowIds(old) = Range(results')
              /\ OneRowPerId(new)]_vars

\* An incremental run that kept the rows it found and validated a new item
C34_Witness ==
    /\ args.script = "item_validate"
    /\ args.mode = "incremental"
    /\ pc = "done"
    /\ results # <<>>
    /\ Len(validation_csv.rows) > Len(results)
    /\ OneRowPerId(validation_csv.rows)

\* C35: item_validate ends with status 0 exactly when no row of the full
\* result set, the existing results and the new ones, is invalid.
C35_StatusIffAllValid ==
    (args.script = "item_validate" /\ pc = "done") =>
        (rc = 0 <=> \A i \in DOMAIN validation_csv.rows : validation_csv.rows[i].json_valid)

\* C36: a run of urls_check_access without --recheck requests no URL that the
\* access cache holds, keeps the cached rows as they were, and ends with a
\* non-zero status exactly when a row of the combined result, cached or
\* new, is inaccessible.
C36_AccessStatus ==
    [][(/\ pc = "idle"
        /\ args'.script = "urls_check_access"
        /\ args'.mode = "none"
        /\ urls_file_exists') =>
          LET old == urls_access_checks.rows
              new == urls_access_checks'.rows
          IN  /\ \A i \in DOMAIN urls_to_check' :
                    urls_to_check'[i] \notin {old[k].url : k \in DOMAIN old}
              /\ SubSeq(new, 1, Len(old)) = old
              /\ (rc' # 0) <=> (\E k \in DOMAIN new : ~new[k].accessible)]_vars

\* The temporal extent that collection_create computes from the URL list of
\* the run is the one in collection.json
ExtentOfSameList ==
    /\ \A i \in DOMAIN urls_to_check : parsed_times(urls_to_check)[i].kind # "raise"
    /\ times_of(parsed_times(urls_to_check)) # {}
    /\ extent_json[path_local] = temporal_extent_of(times_of(parsed_times(urls_to_check)))

Within(t, extent) == t.kind = "datetime" /\ DateLeq(extent.start, t) /\ DateLeq(t, extent.end)

\* C37: the timestamp of every item that a run of item_create made from a
\* URL list lies within the temporal extent that collection_create computes
\* from the same list, also when it is the placeholder.
C37_ItemsWithinExtent ==
    (args.script = "item_create" /\ pc = "done" /\ rc = 0 /\ ExtentOfSameList) =>
        \A f \in item_json[path_local] :
            f.id \in CreatedIds => Within(f.datetime, extent_json[path_local])

====
